---------------------------- MODULE Spec2Model ----------------------------
(***************************************************************************)
(* Rule-based special detectors of the 12-lead ECG classifier              *)
(* (models/special_detectors.py): brady_tachy_detector,                    *)
(* electrical_axis_detector, LQRSV_detector and the decision step of       *)
(* pacing_rhythm_detector; the loader and the resampler of CINC2020Reader  *)
(* (load_data, load_resampled_data) and the stages of                      *)
(* run_12ECG_classifier.                                                   *)
(*                                                                         *)
(* Every detector is a pure function.  A behaviour is one call: Init draws *)
(* the arguments, the detector's action computes the locals and the        *)
(* returned value (or the exception that leaves the function), and the     *)
(* follow-up actions call the detector again on an argument derived from   *)
(* the first one (R-R intervals shortened, waveform rescaled).             *)
(*                                                                         *)
(* Samples, thresholds and sample indices are integers.  A mean is kept as *)
(* an exact fraction (sum, count): the float64 quotient of two small       *)
(* integers compares with an integer exactly as the fraction does.         *)
(*                                                                         *)
(* A physical sample of the loader is an exact fraction num / den in lowest *)
(* terms; den = 0 is the inf or nan that numpy gives for a division by 0.  *)
(* run_12ECG_classifier is a sequence of stages, one action per stage.     *)
(*                                                                         *)
(* The filtering and peak detection of pacing_rhythm_detector are library  *)
(* calls; the number of spikes they leave in each lead is an argument of   *)
(* the model.  sig_duration_ms is a Python float, so dividing it by a      *)
(* spike count of 0 raises ZeroDivisionError.                              *)
(*                                                                         *)
(* The four detectors are also run as the tasks of a pool, in any order,   *)
(* on the same arrays and R peaks; and the train-test split of one tranche *)
(* (CINC2020._train_test_split in dataset.py) is one call of the method.   *)
(***************************************************************************)
EXTENDS Integers, Sequences, FiniteSets

VARIABLES
    op,               \* the function called: "rate", "axis", "pacing", "lqrsv",
                      \* "load_data", "load_resampled_data", "classify",
                      \* "split", "check"; "pool" for the detectors as tasks
    pc,               \* "call": arguments bound, body not run; "done": returned
                      \* or raised; in between, the stage run_12ECG_classifier
                      \* has completed
    raised,           \* "none", or the name of the exception that left the call
    fs,               \* sampling frequency (Hz)
    rpeaks,           \* array of indices of the R peaks
    normal_rr_range,  \* optional argument of brady_tachy_detector; << >> is None
    mean_rr,          \* local of brady_tachy_detector: the fraction sum / n, NaN when n = 0
    nrr,              \* local of brady_tachy_detector: bounds in samples
    conclusion,       \* value returned by brady_tachy_detector
    shrinks,          \* number of follow-up calls made on shortened intervals
    sig,              \* the waveform given to electrical_axis_detector: lead -> samples
    method,           \* optional argument of electrical_axis_detector; "none" is None
    axis_method,      \* FeatureCfg.axis_method, the configured default method
    decision_method,  \* local of electrical_axis_detector
    l_qrs,            \* local of electrical_axis_detector: the QRS intervals
    lead_I_positive,  \* locals of electrical_axis_detector
    lead_aVF_positive,
    lead_II_positive,
    axis,             \* value returned by electrical_axis_detector
    rescales,         \* number of follow-up calls made on a rescaled waveform
    sig_len,          \* local of pacing_rhythm_detector: samples per lead
    potential_spikes, \* local of pacing_rhythm_detector: per lead, the number
                      \* of spikes detect_peaks found, len(potential_spikes[l])
    pr_spike_leads_threshold,  \* FeatureCfg.pr_spike_leads_threshold
    lead_has_enough_spikes,    \* local of pacing_rhythm_detector
    is_PR,            \* value returned by pacing_rhythm_detector
    filtered_sig,     \* the 12-lead array given to LQRSV_detector, in the
                      \* layout named by sig_fmt; amplitudes in 0.1 mV
    sig_fmt,          \* "channel_first": leads x samples; else samples x leads
    lqrsv_ratio_threshold,     \* FeatureCfg.lqrsv_ratio_threshold, a fraction
    low_qrs_limb_flags,        \* locals of LQRSV_detector: one boolean per
    low_qrs_precordial_flags,  \* (QRS window, lead) instance of the group
    low_qrs_limb_leads,        \* locals of LQRSV_detector: the ratio of the
    low_qrs_precordial_leads,  \* low instances of the group, a fraction
    is_LQRSV,         \* value returned by LQRSV_detector
    record,           \* the stored record: tranche, digital samples (leads x
                      \* samples), baseline and adc_gain per lead, header fs
    args,             \* arguments of the loader call: data_format, backend,
                      \* units, freq and siglen (<< >> is None)
    data,             \* the waveform computed by the call (raw_data in
                      \* run_12ECG_classifier); every sample a fraction num / den
    resample_calls,   \* number of resample_poly calls made by the call
    files,            \* the *_500Hz*.npy files on disk: pairs <<siglen, array>>
    loads,            \* number of load_resampled_data calls made so far
    first_loaded,     \* history: triples <<siglen, array, data_format>>, the
                      \* array returned (as leads x samples) by the first
                      \* call with that siglen, and the layout it asked for
    freq,             \* local of run_12ECG_classifier: frequency of raw_data
    partial_conclusion,  \* the flags returned by special_detectors
    tmp,              \* the rule-based vector over ModelCfg.full_classes
    dl_data,          \* input of the networks: the samples it was made from
                      \* (val) and the steps applied to them
    dl_classes,       \* ModelCfg.dl_classes
    dl_scores,        \* scores of the networks over dl_classes, in tenths
    dl_conclusions,   \* labels of the networks over dl_classes
    final_scores,     \* current_score, in tenths
    final_conclusions,  \* current_label
    raw_sig,          \* the array run_12ECG_classifier gives to special_detectors
    futures,          \* one task per detector: whether it has finished, and the
                      \* exception it ended with
    lead_futures,     \* one task per lead of pacing_rhythm_detector, the same
    all_records,      \* reader.all_records[t]: the records of the tranche, each
                      \* with its labels and its samples at 500 Hz
    tranche_classes,  \* TrainCfg.tranche_classes[t], a set
    train_ratio,      \* train_ratio, in percent
    tranche_records,  \* local of _train_test_split: the valid records (indices
                      \* into all_records), in their current order
    train,            \* train[t]; the argument train of the validity check
    test,             \* test[t]; the argument test of the validity check
    is_valid          \* local of _train_test_split; the value returned by
                      \* _check_train_test_split_validity

varsRate == <<normal_rr_range, mean_rr, nrr, conclusion, shrinks>>

varsAxis == <<sig, method, axis_method, decision_method, l_qrs, lead_I_positive,
              lead_aVF_positive, lead_II_positive, axis, rescales>>

varsPacing == <<sig_len, potential_spikes, pr_spike_leads_threshold,
                lead_has_enough_spikes, is_PR>>

varsLQRSV == <<filtered_sig, sig_fmt, lqrsv_ratio_threshold, low_qrs_limb_flags,
               low_qrs_precordial_flags, low_qrs_limb_leads,
               low_qrs_precordial_leads, is_LQRSV>>

varsReader == <<record, args, data, resample_calls, files, loads, first_loaded>>

varsClassifier == <<freq, partial_conclusion, tmp, dl_data, dl_classes, dl_scores,
                    dl_conclusions, final_scores, final_conclusions, raw_sig>>

varsPool == <<futures, lead_futures>>

varsSplit == <<all_records, tranche_classes, train_ratio, tranche_records, train,
               test, is_valid>>

vars == <<op, pc, raised, fs, rpeaks, varsRate, varsAxis, varsPacing, varsLQRSV,
          varsReader, varsClassifier, varsPool,
                   varsSplit>>

----------------------------------------------------------------------------
(* Bounds of the model *)

\* longest R-peak array passed to brady_tachy_detector
MaxPeaks == 4

\* longest normal_rr_range passed to brady_tachy_detector
MaxRangeLen == 2

\* number of follow-up calls on shortened R-R intervals
MaxShrinks == 2

\* longest R-peak array passed to electrical_axis_detector
MaxAxisPeaks == 3

\* number of samples per lead of the waveform given to electrical_axis_detector
SigLen == 5

\* number of leads of the signal given to pacing_rhythm_detector
NumLeads == 4

\* largest number of spikes detected in one lead
MaxSpikes == 4

\* longest R-peak array passed to LQRSV_detector
MaxLqPeaks == 2

\* number of samples per lead of the array given to LQRSV_detector
LqSigLen == 6

\* number of leads of a stored record
NumRecLeads == 2

\* largest number of samples per lead of a stored record
MaxRecLen == 3

\* largest number of records of a tranche
MaxRecords == 3

\* number of load_resampled_data calls on one record
MaxLoads == 2

\* longest R-peak array in the calls of the four detectors taken together
MaxBankPeaks == 2

----------------------------------------------------------------------------
(* Values that are not produced *)

None == "none"

\* the mean of no values: a fraction with no terms
NaN == [sum |-> 0, n |-> 0]

----------------------------------------------------------------------------
(* Helpers on sequences: numpy and builtins used by the detectors *)

SeqsUpTo(S, n) == UNION {[1..k -> S] : k \in 0..n}

RECURSIVE SumSeq(_)
SumSeq(s) == IF s = << >> THEN 0 ELSE Head(s) + SumSeq(Tail(s))

\* np.diff: successive differences, empty for fewer than two elements
\* variant: the distances between successive elements
np_diff_absolute(a) ==
    [i \in 1..(IF Len(a) = 0 THEN 0 ELSE Len(a) - 1) |->
        IF a[i + 1] >= a[i] THEN a[i + 1] - a[i] ELSE a[i] - a[i + 1]]

np_diff(a) == [i \in 1..(IF Len(a) = 0 THEN 0 ELSE Len(a) - 1) |-> a[i + 1] - a[i]]

\* np.mean: the mean of an empty array is nan (a warning, not an exception)
np_mean(a) == IF Len(a) = 0 THEN NaN ELSE [sum |-> SumSeq(a), n |-> Len(a)]

\* mean < k and mean > k for an integer k; every comparison with nan is false
MeanLt(m, k) == m.n > 0 /\ m.sum < k * m.n

MeanGt(m, k) == m.n > 0 /\ m.sum > k * m.n

RECURSIVE Insert(_, _)
Insert(x, s) ==
    IF s = << >> THEN <<x>>
    ELSE IF x <= Head(s) THEN <<x>> \o s
    ELSE <<Head(s)>> \o Insert(x, Tail(s))

RECURSIVE sorted(_)
sorted(s) == IF s = << >> THEN << >> ELSE Insert(Head(s), sorted(Tail(s)))

----------------------------------------------------------------------------
(* Configuration and unit conversion (cfg.py, utils/misc.py) *)

tachy_threshold == 600

brady_threshold == 1000

\* radius of the QRS window, in ms
axis_qrs_mask_radius == 2

\* a lead has enough spikes when it has more than one spike per this many ms
pr_spike_inv_density_threshold == 2000

\* milliseconds to a number of samples at frequency f
ms2samples(t, f) == (t * f) \div 1000

\* number of samples at frequency f to milliseconds: the fraction n * 1000 / f
samples2ms(n, f) == [num |-> n * 1000, den |-> f]

----------------------------------------------------------------------------
(* pacing_rhythm_detector: the decision made from the spikes of every lead *)

\* sig_duration_ms / k < threshold, for a spike count k > 0
enough_spikes(duration, k, threshold) == duration.num < threshold * k * duration.den

RECURSIVE count_true(_)
count_true(b) ==
    IF b = << >> THEN 0 ELSE (IF Head(b) THEN 1 ELSE 0) + count_true(Tail(b))

pacing_rhythm_decision(spikes, n, f, leads_threshold) ==
    LET sig_duration_ms == samples2ms(n, f)
    IN  IF \E l \in 1..Len(spikes) : spikes[l] = 0
        THEN \* sig_duration_ms / len(potential_spikes[l]) with no spike in lead l
             [raised |-> "ZeroDivisionError", lead_has_enough_spikes |-> << >>,
              is_PR |-> FALSE]
        ELSE LET enough == [l \in 1..Len(spikes) |->
                              enough_spikes(sig_duration_ms, spikes[l],
                                            pr_spike_inv_density_threshold)]
             IN  [raised |-> None, lead_has_enough_spikes |-> enough,
                  is_PR |-> count_true(enough) >= leads_threshold]

----------------------------------------------------------------------------
(* brady_tachy_detector *)

RateLabels == {"T", "B", "N"}

\* nrr = sorted(normal_rr_range or [tachy_threshold, brady_threshold])
rate_range(range) ==
    sorted(IF range = << >> THEN <<tachy_threshold, brady_threshold>> ELSE range)

\* variant: a mean equal to the lower bound is T
rate_decision_lower_inclusive(m, lo, hi) ==
    IF m.n > 0 /\ m.sum <= lo * m.n THEN "T"
    ELSE IF MeanGt(m, hi) THEN "B"
    ELSE "N"

\* variant: a mean equal to the upper bound is B
rate_decision_upper_inclusive(m, lo, hi) ==
    IF MeanLt(m, lo) THEN "T"
    ELSE IF m.n > 0 /\ m.sum >= hi * m.n THEN "B"
    ELSE "N"

\* variant: the two labels exchanged
rate_decision_swapped(m, lo, hi) ==
    IF MeanLt(m, lo) THEN "B"
    ELSE IF MeanGt(m, hi) THEN "T"
    ELSE "N"

\* the if / elif / else on mean_rr
rate_decision(m, lo, hi) ==
    IF MeanLt(m, lo) THEN "T"
    ELSE IF MeanGt(m, hi) THEN "B"
    ELSE "N"

brady_tachy_detector(peaks, f, range) ==
    LET rr_intervals == np_diff(peaks)
        m == np_mean(rr_intervals)
        r == rate_range(range)
    IN  IF Len(r) < 2
        THEN [raised |-> "AssertionError", mean_rr |-> m, nrr |-> r,
              conclusion |-> None]
        ELSE LET b == <<ms2samples(r[1], f), ms2samples(r[Len(r)], f)>>
             IN  [raised |-> None, mean_rr |-> m, nrr |-> b,
                  conclusion |-> rate_decision(m, b[1], b[2])]

----------------------------------------------------------------------------
(* electrical_axis_detector *)

AxisLabels == {"normal", "LAD", "RAD"}

AxisLeads == {"I", "II", "aVF"}

SupportedMethods == {"2-lead", "3-lead"}

\* str.lower on the method strings of the model
str_lower(str) ==
    IF str \in {"2-LEAD", "2-Lead"} THEN "2-lead"
    ELSE IF str \in {"3-LEAD", "3-Lead"} THEN "3-lead"
    ELSE str

\* decision_method = (method or FeatureCfg.axis_method).lower()
resolve_method(m, cfg) == str_lower(IF m = None THEN cfg ELSE m)

Abs(x) == IF x < 0 THEN -x ELSE x

Least(a, b) == IF a <= b THEN a ELSE b

Greatest(a, b) == IF a >= b THEN a ELSE b

RECURSIVE SeqMax(_)
SeqMax(w) ==
    IF Len(w) = 1 THEN Head(w) ELSE Greatest(Head(w), SeqMax(Tail(w)))

RECURSIVE SeqMin(_)
SeqMin(w) ==
    IF Len(w) = 1 THEN Head(w) ELSE Least(Head(w), SeqMin(Tail(w)))

\* a[start:stop] of a 1-d array: a negative bound counts from the end, both
\* bounds are clipped to the array, and stop is excluded
py_slice(a, start, stop) ==
    LET n == Len(a)
        norm(k) == IF k < 0 THEN Greatest(k + n, 0) ELSE Least(k, n)
        lo == norm(start)
        hi == norm(stop)
    IN  IF hi <= lo THEN << >> ELSE [i \in 1..(hi - lo) |-> a[lo + i]]

\* variant: the windows are not clipped to the signal
qrs_intervals_unclipped(peaks, radius, n) ==
    [i \in 1..Len(peaks) |-> <<peaks[i] - radius, peaks[i] + radius>>]

\* l_qrs.append([max(0, r-radius), min(sig_len-1, r+radius)]) for every r
qrs_intervals(peaks, radius, n) ==
    [i \in 1..Len(peaks) |->
        <<Greatest(0, peaks[i] - radius), Least(n - 1, peaks[i] + radius)>>]

qrs_window(lead, itv) == py_slice(lead, itv[1], itv[2])

\* variant: the maximum must exceed the minimum by a fixed margin
window_positive_with_margin(w) == SeqMax(w) > Abs(SeqMin(w)) + 1

\* np.max(window) > np.abs(np.min(window))
window_positive(w) == SeqMax(w) > Abs(SeqMin(w))

RECURSIVE count_positive(_, _)
count_positive(lead, itvs) ==
    IF itvs = << >> THEN 0
    ELSE (IF window_positive(qrs_window(lead, Head(itvs))) THEN 1 ELSE 0)
            + count_positive(lead, Tail(itvs))

\* variant: half of the windows is enough
majority_at_least_half(count, total) == 2 * count >= total

\* sum([...]) >= len(l_qrs)//2 + 1
majority(count, total) == count >= total \div 2 + 1

lead_positive(lead, itvs) == majority(count_positive(lead, itvs), Len(itvs))

\* variant: lead II ignored by the 3-lead method
axis_decision_3lead_without_II(dm, pI, pII, pF) ==
    IF pI /\ ~pF THEN "LAD"
    ELSE IF ~pI /\ pF THEN "RAD"
    ELSE "normal"

\* the decision making of either method
axis_decision(dm, pI, pII, pF) ==
    IF dm = "2-lead"
    THEN IF pI /\ ~pF THEN "LAD"
         ELSE IF ~pI /\ pF THEN "RAD"
         ELSE "normal"
    ELSE IF pI /\ ~pII /\ ~pF THEN "LAD"
         ELSE IF ~pI /\ pF THEN "RAD"
         ELSE "normal"

\* variant: the method is checked after the windows are read
axis_failure_late_check(dm, lead, itvs) ==
    IF \E i \in 1..Len(itvs) : qrs_window(lead, itvs[i]) = << >>
    THEN "ValueError"
    ELSE IF dm \notin SupportedMethods THEN "AssertionError"
    ELSE None

\* the exception that leaves the call, if any: the assert on the method comes
\* first, then np.max of a zero-size window of lead I
axis_failure(dm, lead, itvs) ==
    IF dm \notin SupportedMethods THEN "AssertionError"
    ELSE IF \E i \in 1..Len(itvs) : qrs_window(lead, itvs[i]) = << >>
    THEN "ValueError"
    ELSE None

electrical_axis_detector(s, peaks, f, m, cfg) ==
    LET dm == resolve_method(m, cfg)
        radius == ms2samples(axis_qrs_mask_radius, f)
        itvs == qrs_intervals(peaks, radius, Len(s["I"]))
        err == axis_failure(dm, s["I"], itvs)
    IN  IF err # None
        THEN [raised |-> err, decision_method |-> dm,
              l_qrs |-> IF err = "AssertionError" THEN << >> ELSE itvs,
              lead_I_positive |-> FALSE, lead_aVF_positive |-> FALSE,
              lead_II_positive |-> FALSE, axis |-> None]
        ELSE LET pI == lead_positive(s["I"], itvs)
                 pF == lead_positive(s["aVF"], itvs)
                 pII == lead_positive(s["II"], itvs)
             IN  [raised |-> None, decision_method |-> dm, l_qrs |-> itvs,
                  lead_I_positive |-> pI, lead_aVF_positive |-> pF,
                  lead_II_positive |-> pII,
                  axis |-> axis_decision(dm, pI, pII, pF)]

----------------------------------------------------------------------------
(* LQRSV_detector *)

Standard12Leads ==
    <<"I", "II", "III", "aVR", "aVL", "aVF", "V1", "V2", "V3", "V4", "V5", "V6">>

LimbLeads == <<"I", "II", "III", "aVR", "aVL", "aVF">>

PrecordialLeads == <<"V1", "V2", "V3", "V4", "V5", "V6">>

\* radius of the QRS window, in ms
lqrsv_qrs_mask_radius == 2

\* widening of the two amplitude ceilings, in 0.1 mV
lqrsv_ampl_bias == 1

\* list.index(x): the 0-based position of x
list_index(list, x) == (CHOOSE i \in 1..Len(list) : list[i] = x) - 1

\* [Standard12Leads.index(l) for l in leads]
lead_inds(leads) ==
    [k \in 1..Len(leads) |-> list_index(Standard12Leads, leads[k])]

\* a.T of a 2-d array: a view of the same buffer
transpose(a) ==
    IF a = << >> THEN << >>
    ELSE [j \in 1..Len(a[1]) |-> [i \in 1..Len(a) |-> a[i][j]]]

\* variant: np.abs(a, out=a), the absolute values written into the argument
np_abs_in_place(a) ==
    LET b == [i \in 1..Len(a) |-> [j \in 1..Len(a[i]) |-> Abs(a[i][j])]]
    IN  [arg |-> b, out |-> b]

\* np.abs(a): a new array (out); the argument (arg) is left as it was
np_abs(a) ==
    [arg |-> a,
     out |-> [i \in 1..Len(a) |-> [j \in 1..Len(a[i]) |-> Abs(a[i][j])]]]

\* sig_ampl, leads x samples, and the caller's array after the statement
lqrsv_sig_ampl(fsig, fmt) ==
    IF fmt \in {"channel_first", "lead_first"}
    THEN np_abs(fsig)
    ELSE LET r == np_abs(transpose(fsig))
         IN  [arg |-> transpose(r.arg), out |-> r.out]

\* get_mask(..., return_fmt='intervals'): one interval per critical point,
\* clipped to the last axis of shape
get_mask(shape, critical_points, left_bias, right_bias) ==
    [i \in 1..Len(critical_points) |->
        <<Greatest(0, critical_points[i] - left_bias),
          Least(shape[Len(shape)], critical_points[i] + right_bias)>>]

\* for itv in l_qrs: for idx in inds: append(sig_ampl[idx, itv[0]:itv[1]])
RECURSIVE group_windows(_, _, _)
group_windows(sig_ampl, itvs, inds) ==
    IF itvs = << >> THEN << >>
    ELSE [k \in 1..Len(inds) |->
            py_slice(sig_ampl[inds[k] + 1], Head(itvs)[1], Head(itvs)[2])]
         \o group_windows(sig_ampl, Tail(itvs), inds)

\* 0.5 + FeatureCfg.lqrsv_ampl_bias, in 0.1 mV
limb_ceiling == 5 + lqrsv_ampl_bias

\* 1 + FeatureCfg.lqrsv_ampl_bias, in 0.1 mV
precordial_ceiling == 10 + lqrsv_ampl_bias

\* variant: a window at the ceiling is not low
low_amplitude_below(item, ceiling) == SeqMax(item) < ceiling

\* np.max(item) <= ceiling
low_amplitude(item, ceiling) == SeqMax(item) <= ceiling

\* the value of a ratio that was not computed
NoRatio == [num |-> 0, den |-> 0]

\* sum(flags) / len(flags), for a list that is not empty
to_ratio(flags) == [num |-> count_true(flags), den |-> Len(flags)]

\* ratio >= threshold
ratio_at_least(ratio, threshold) ==
    ratio.num * threshold.den >= threshold.num * ratio.den

\* variant: both groups must reach the threshold
lqrsv_decision_both(limb_ratio, precordial_ratio, threshold) ==
    ratio_at_least(limb_ratio, threshold)
        /\ ratio_at_least(precordial_ratio, threshold)

lqrsv_decision(limb_ratio, precordial_ratio, threshold) ==
    ratio_at_least(limb_ratio, threshold)
        \/ ratio_at_least(precordial_ratio, threshold)

\* the exception that leaves the call, if any: np.max of a zero-size window,
\* or the division by the length of an empty list of windows
lqrsv_failure(windows) ==
    IF \E i \in 1..Len(windows) : windows[i] = << >> THEN "ValueError"
    ELSE IF windows = << >> THEN "ZeroDivisionError"
    ELSE None

LQRSV_detector(fsig, peaks, f, fmt, threshold) ==
    LET ampl == lqrsv_sig_ampl(fsig, fmt)
        qrs_mask_radius == ms2samples(lqrsv_qrs_mask_radius, f)
        itvs == get_mask(<<Len(ampl.out), Len(ampl.out[1])>>, peaks,
                         qrs_mask_radius, qrs_mask_radius)
        limb == group_windows(ampl.out, itvs, lead_inds(LimbLeads))
        precordial == group_windows(ampl.out, itvs, lead_inds(PrecordialLeads))
        err == lqrsv_failure(limb)
    IN  IF err # None
        THEN [raised |-> err, filtered_sig |-> ampl.arg,
              low_qrs_limb_flags |-> << >>, low_qrs_precordial_flags |-> << >>,
              low_qrs_limb_leads |-> NoRatio,
              low_qrs_precordial_leads |-> NoRatio,
              is_LQRSV |-> FALSE]
        ELSE LET lf == [i \in 1..Len(limb) |->
                            low_amplitude(limb[i], limb_ceiling)]
                 pf == [i \in 1..Len(precordial) |->
                            low_amplitude(precordial[i], precordial_ceiling)]
             IN  [raised |-> None, filtered_sig |-> ampl.arg,
                  low_qrs_limb_flags |-> lf, low_qrs_precordial_flags |-> pf,
                  low_qrs_limb_leads |-> to_ratio(lf),
                  low_qrs_precordial_leads |-> to_ratio(pf),
                  is_LQRSV |-> lqrsv_decision(to_ratio(lf), to_ratio(pf),
                                              threshold)]

----------------------------------------------------------------------------
(* CINC2020Reader: load_data and load_resampled_data *)

\* CINC2020Reader.freq
reader_freq(tranche) ==
    IF tranche = "C" THEN 257 ELSE IF tranche = "D" THEN 1000 ELSE 500

\* variant: no tranche has a correction of its own
value_correction_factor_identity(tranche) == [num |-> 1, den |-> 1]

\* CINC2020Reader.value_correction_factor: 1, and 4.88 for tranche F
value_correction_factor(tranche) ==
    IF tranche = "F" THEN [num |-> 122, den |-> 25] ELSE [num |-> 1, den |-> 1]

RECURSIVE gcd(_, _)
gcd(a, b) == IF b = 0 THEN a ELSE gcd(b, a % b)

\* the float n / d for d >= 0, as a fraction in lowest terms; a division by
\* 0 gives inf (1/0), -inf (-1/0) or nan (0/0) and a warning, not an exception
quotient(n, d) ==
    IF d = 0 THEN [num |-> IF n > 0 THEN 1 ELSE IF n < 0 THEN -1 ELSE 0, den |-> 0]
    ELSE LET g == gcd(Abs(n), d)
         IN  [num |-> n \div g, den |-> d \div g]

\* (data - baselines) / adc_gain, lead by lead
calibrate(digital, baseline, adc_gain) ==
    [l \in 1..Len(digital) |->
        [i \in 1..Len(digital[l]) |->
            quotient(digital[l][i] - baseline[l], adc_gain[l])]]

\* data * k for a positive fraction k
times(x, k) ==
    [l \in 1..Len(x) |->
        [i \in 1..Len(x[l]) |->
            quotient(x[l][i].num * k.num, x[l][i].den * k.den)]]

\* units.lower() in ['uv', 'μv']
unit_factor(units) ==
    IF units \in {"uV", "uv", "μV", "μv"} THEN [num |-> 1000, den |-> 1]
    ELSE [num |-> 1, den |-> 1]

\* scipy.signal.resample_poly(x, up, down, axis=1): the output has
\* ceil(n * up / down) samples per lead; the polyphase filter is not
\* modelled, output sample i holds the input sample at the same time
resample_poly(x, up, down) ==
    LET g == gcd(up, down)
        u == up \div g
        d == down \div g
    IN  [l \in 1..Len(x) |->
            [i \in 1..((Len(x[l]) * u + d - 1) \div d) |->
                x[l][((i - 1) * d) \div u + 1]]]

\* variant: resample_poly is never called
needs_resampling_never(target, native) == FALSE

\* variant: the resampling runs also when the two frequencies are equal
needs_resampling_always(target, native) == target # << >>

\* freq is not None and freq != self.freq[tranche]
needs_resampling(target, native) == target # << >> /\ target[1] # native

\* the exception that leaves load_data, if any
load_data_failure(data_format, backend) ==
    IF data_format \notin {"channel_first", "lead_first", "channel_last", "lead_last"}
    THEN "AssertionError"
    ELSE IF backend \notin {"wfdb", "scipy"} THEN "ValueError"
    ELSE None

\* load_data of all leads; wfdb.rdrecord(physical=True) is taken to compute
\* the same quotient as the scipy branch
load_data(rec, data_format, backend, units, target) ==
    LET err == load_data_failure(data_format, backend)
        physical == calibrate(rec.digital, rec.baseline, rec.adc_gain)
        corrected == times(physical, value_correction_factor(rec.tranche))
        scaled == times(corrected, unit_factor(units))
        resampling == needs_resampling(target, reader_freq(rec.tranche))
        resampled == IF resampling
                     THEN resample_poly(scaled, target[1], reader_freq(rec.tranche))
                     ELSE scaled
    IN  IF err # None
        THEN [raised |-> err, data |-> << >>, resample_calls |-> 0]
        ELSE [raised |-> None,
              data |-> IF data_format \in {"channel_last", "lead_last"}
                       THEN transpose(resampled) ELSE resampled,
              resample_calls |-> IF resampling THEN 1 ELSE 0]

\* a sample of value 0
Zero == [num |-> 0, den |-> 1]

\* variant: the last sample of the window is the last sample of the signal
ensure_siglen_with_tail(values, siglen) ==
    [l \in 1..Len(values) |->
        [i \in 1..siglen |->
            IF i > Len(values[l]) THEN Zero
            ELSE IF i = siglen THEN values[l][Len(values[l])]
            ELSE values[l][i]]]

\* ensure_siglen(values, siglen, fmt='channel_first'): the window of siglen
\* samples in the centre of a longer signal; a shorter signal is padded with
\* zeros on both sides
ensure_siglen(values, siglen) ==
    [l \in 1..Len(values) |->
        LET n == Len(values[l])
            start == (n - siglen) \div 2
            left == (siglen - n) \div 2
        IN  IF n >= siglen
            THEN [i \in 1..siglen |-> values[l][start + i]]
            ELSE [i \in 1..siglen |->
                    IF i > left /\ i <= left + n THEN values[l][i - left]
                    ELSE Zero]]

\* variant: the array is saved whenever it was computed
load_resampled_data_saving_short(rec, data_format, siglen, fls) ==
    LET native == reader_freq(rec.tranche)
        cached == {f \in fls : f[1] = siglen}
        loaded == load_data(rec, "channel_first", "wfdb", "mV", << >>)
        resampling == needs_resampling(<<500>>, native)
        resampled == IF resampling THEN resample_poly(loaded.data, 500, native)
                     ELSE loaded.data
        long_enough == siglen # << >> /\ Len(resampled[1]) >= siglen[1]
        computed == IF long_enough THEN ensure_siglen(resampled, siglen[1])
                    ELSE resampled
        d == IF cached = {} THEN computed ELSE (CHOOSE f \in cached : TRUE)[2]
    IN  [raised |-> None,
         data |-> IF data_format \in {"channel_last", "lead_last"}
                  THEN transpose(d) ELSE d,
         files |-> IF cached = {} THEN fls \cup {<<siglen, computed>>} ELSE fls,
         resample_calls |-> IF cached = {} /\ resampling THEN 1 ELSE 0]

\* load_resampled_data; fls are the files on disk before the call
load_resampled_data(rec, data_format, siglen, fls) ==
    LET native == reader_freq(rec.tranche)
        cached == {f \in fls : f[1] = siglen}
        loaded == load_data(rec, "channel_first", "wfdb", "mV", << >>)
        resampling == needs_resampling(<<500>>, native)
        resampled == IF resampling THEN resample_poly(loaded.data, 500, native)
                     ELSE loaded.data
        long_enough == siglen # << >> /\ Len(resampled[1]) >= siglen[1]
        computed == IF long_enough THEN ensure_siglen(resampled, siglen[1])
                    ELSE resampled
        saved == long_enough \/ siglen = << >>
        d == IF cached = {} THEN computed ELSE (CHOOSE f \in cached : TRUE)[2]
    IN  [raised |-> None,
         data |-> IF data_format \in {"channel_last", "lead_last"}
                  THEN transpose(d) ELSE d,
         files |-> IF cached = {} /\ saved THEN fls \cup {<<siglen, computed>>}
                   ELSE fls,
         resample_calls |-> IF cached = {} /\ resampling THEN 1 ELSE 0]

----------------------------------------------------------------------------
(* run_12ECG_classifier *)

\* ModelCfg.fs, the frequency the networks and the detectors work at
model_fs == 500

\* ModelCfg.dl_siglen, the number of samples given to the networks
dl_siglen == 2

\* ModelCfg.full_classes
full_classes == <<"AF", "NSR", "STach", "Brady", "LAD", "RAD", "PR", "LQRSV">>

\* ModelCfg.bin_pred_thr, bin_pred_nsr_thr and bin_pred_look_again_tol, in
\* tenths
bin_pred_thr == 5

bin_pred_nsr_thr == 2

bin_pred_look_again_tol == 1

\* special_detectors: the verdicts of the four detectors as flags
special_detectors(rate, ax, pr, lqrsv) ==
    [is_brady |-> rate = "B", is_tachy |-> rate = "T", is_LAD |-> ax = "LAD",
     is_RAD |-> ax = "RAD", is_PR |-> pr, is_LQRSV |-> lqrsv]

\* int(b)
int(b) == IF b THEN 1 ELSE 0

\* variant: the slot of STach written from is_tachy
rule_vector_with_tachy(flags) ==
    [c \in 1..Len(full_classes) |->
        IF full_classes[c] = "Brady" THEN int(flags.is_brady)
        ELSE IF full_classes[c] = "STach" THEN int(flags.is_tachy)
        ELSE IF full_classes[c] = "LAD" THEN int(flags.is_LAD)
        ELSE IF full_classes[c] = "RAD" THEN int(flags.is_RAD)
        ELSE IF full_classes[c] = "PR" THEN int(flags.is_PR)
        ELSE IF full_classes[c] = "LQRSV" THEN int(flags.is_LQRSV)
        ELSE 0]

\* tmp: zeros, then the five slots written from the flags
rule_vector(flags) ==
    [c \in 1..Len(full_classes) |->
        IF full_classes[c] = "Brady" THEN int(flags.is_brady)
        ELSE IF full_classes[c] = "LAD" THEN int(flags.is_LAD)
        ELSE IF full_classes[c] = "RAD" THEN int(flags.is_RAD)
        ELSE IF full_classes[c] = "PR" THEN int(flags.is_PR)
        ELSE IF full_classes[c] = "LQRSV" THEN int(flags.is_LQRSV)
        ELSE 0]

\* dl_data: band-pass filtered, cut or padded to dl_siglen, normalized
prepare_dl_data(raw_data) ==
    [val |-> ensure_siglen(raw_data, dl_siglen), bandpassed |-> TRUE,
     normalized |-> TRUE]

\* dl_nsr_cid: the 0-based position of NSR in the classes, << >> for None
nsr_cid(classes) ==
    IF \E i \in 1..Len(classes) : classes[i] = "NSR"
    THEN <<list_index(classes, "NSR")>>
    ELSE IF \E i \in 1..Len(classes) : classes[i] = "426783006"
    THEN <<list_index(classes, "426783006")>>
    ELSE << >>

\* (dl_scores >= ModelCfg.bin_pred_thr).astype(int)
threshold_scores(scores) ==
    [i \in 1..Len(scores) |-> int(scores[i] >= bin_pred_thr)]

\* the treatment of the exceptional cases; the branch of the NSR class
\* uses the name row_idx, which is not defined
post_process(scores, classes) ==
    LET thresholded == threshold_scores(scores)
        max_prob == SeqMax(scores)
    IN  IF max_prob < bin_pred_nsr_thr /\ nsr_cid(classes) # << >>
        THEN [raised |-> "NameError", dl_conclusions |-> thresholded]
        ELSE IF SumSeq(thresholded) = 0
        THEN [raised |-> None,
              dl_conclusions |->
                 [i \in 1..Len(scores) |->
                     int(scores[i] + bin_pred_look_again_tol >= max_prob
                            /\ scores[i] >= bin_pred_nsr_thr)]]
        ELSE [raised |-> None, dl_conclusions |-> thresholded]

\* extend_predictions(preds, classes, extended_classes): the predictions in
\* the slots of extended_classes, zeros in the other slots
extend_predictions(preds, classes, extended_classes) ==
    [c \in 1..Len(extended_classes) |->
        IF \E i \in 1..Len(classes) : classes[i] = extended_classes[c]
        THEN preds[list_index(classes, extended_classes[c]) + 1]
        ELSE 0]

\* np.max([rule, learned], axis=0)
merge(rule, learned) ==
    [c \in 1..Len(rule) |-> Greatest(rule[c], learned[c])]

----------------------------------------------------------------------------
(* Arguments of the calls *)

RatePeakPositions == {100, 400, 600, 700, 1100, 1600}

RateFrequencies == {250, 500}

RateRangesMs == {600, 1000}

ShrinkSteps == {100}

\* every R-R interval shortened by d samples, the first peak kept
shorten(peaks, d) == [i \in 1..Len(peaks) |-> peaks[i] - (i - 1) * d]

\* the variables of the other detectors while one detector is called
RateIdle ==
    /\ normal_rr_range = << >>
    /\ mean_rr = NaN
    /\ nrr = << >>
    /\ conclusion = None
    /\ shrinks = 0

AxisIdle ==
    /\ sig = [l \in AxisLeads |-> << >>]
    /\ method = None
    /\ axis_method = "2-lead"
    /\ decision_method = None
    /\ l_qrs = << >>
    /\ lead_I_positive = FALSE
    /\ lead_aVF_positive = FALSE
    /\ lead_II_positive = FALSE
    /\ axis = None
    /\ rescales = 0

PacingIdle ==
    /\ sig_len = 0
    /\ potential_spikes = << >>
    /\ pr_spike_leads_threshold = 0
    /\ lead_has_enough_spikes = << >>
    /\ is_PR = FALSE

LQRSVIdle ==
    /\ filtered_sig = << >>
    /\ sig_fmt = "channel_first"
    /\ lqrsv_ratio_threshold = NoRatio
    /\ low_qrs_limb_flags = << >>
    /\ low_qrs_precordial_flags = << >>
    /\ low_qrs_limb_leads = NoRatio
    /\ low_qrs_precordial_leads = NoRatio
    /\ is_LQRSV = FALSE

NoArgs ==
    [data_format |-> "channel_first", backend |-> "wfdb", units |-> "mV",
     freq |-> << >>, siglen |-> << >>]

NoRecord ==
    [tranche |-> "A", digital |-> << >>, baseline |-> << >>, adc_gain |-> << >>,
     fs |-> 500]

NoFlags ==
    [is_brady |-> FALSE, is_tachy |-> FALSE, is_LAD |-> FALSE, is_RAD |-> FALSE,
     is_PR |-> FALSE, is_LQRSV |-> FALSE]

NoDlData == [val |-> << >>, bandpassed |-> FALSE, normalized |-> FALSE]

ClassifierIdle ==
    /\ freq = 0
    /\ partial_conclusion = NoFlags
    /\ tmp = << >>
    /\ dl_data = NoDlData
    /\ dl_classes = << >>
    /\ dl_scores = << >>
    /\ dl_conclusions = << >>
    /\ final_scores = << >>
    /\ final_conclusions = << >>
    /\ raw_sig = << >>

PoolIdle ==
    /\ futures = << >>
    /\ lead_futures = << >>

SplitIdle ==
    /\ all_records = << >>
    /\ tranche_classes = {}
    /\ train_ratio = 0
    /\ tranche_records = << >>
    /\ train = << >>
    /\ test = << >>
    /\ is_valid = FALSE

ReaderIdle ==
    /\ record = NoRecord
    /\ args = NoArgs
    /\ data = << >>
    /\ resample_calls = 0
    /\ files = {}
    /\ loads = 0
    /\ first_loaded = {}

InitRate ==
    /\ op = "rate"
    /\ pc = "call"
    /\ raised = None
    /\ fs \in RateFrequencies
    /\ rpeaks \in SeqsUpTo(RatePeakPositions, MaxPeaks)
    /\ normal_rr_range \in SeqsUpTo(RateRangesMs, MaxRangeLen)
    /\ mean_rr = NaN
    /\ nrr = << >>
    /\ conclusion = None
    /\ shrinks = 0
    /\ AxisIdle
    /\ PacingIdle
    /\ LQRSVIdle
    /\ ReaderIdle
    /\ ClassifierIdle
    /\ PoolIdle
    /\ SplitIdle

RateReturn(peaks) ==
    \E out \in {brady_tachy_detector(peaks, fs, normal_rr_range)} :
        /\ rpeaks' = peaks
        /\ raised' = out.raised
        /\ mean_rr' = out.mean_rr
        /\ nrr' = out.nrr
        /\ conclusion' = out.conclusion
        /\ pc' = "done"
        /\ UNCHANGED <<op, fs, normal_rr_range, varsAxis, varsPacing, varsLQRSV,
                       varsReader, varsClassifier, varsPool,
                   varsSplit>>

RateCall ==
    /\ op = "rate"
    /\ pc = "call"
    /\ RateReturn(rpeaks)
    /\ UNCHANGED shrinks

RateCallShortened ==
    /\ op = "rate"
    /\ pc = "done"
    /\ raised = None
    /\ shrinks < MaxShrinks
    /\ shrinks' = shrinks + 1
    /\ \E d \in ShrinkSteps : RateReturn(shorten(rpeaks, d))

NextRate == RateCall \/ RateCallShortened

SpecRate == InitRate /\ [][NextRate]_vars

\* waveforms of one lead: every QRS window of two or more samples is net
\* positive (up), net negative (down), balanced (tie), or positive at the
\* start of the lead and negative after it, up to a large positive last
\* sample (mixed)
LeadShapes ==
    { [i \in 1..SigLen |-> IF i % 2 = 1 THEN 2 ELSE -1],
      [i \in 1..SigLen |-> IF i % 2 = 1 THEN -2 ELSE 1],
      [i \in 1..SigLen |-> IF i % 2 = 1 THEN 1 ELSE -1],
      [i \in 1..SigLen |-> IF i = 1 THEN 2 ELSE IF i = 2 THEN -1
                           ELSE IF i = 3 THEN 0
                           ELSE IF i % 2 = 0 THEN -2 ELSE 3] }

\* sample indices of R peaks; SigLen is past the end of the signal
AxisPeakPositions == {1, 3, SigLen}

AxisFrequencies == {500, 1000}

AxisMethods == {None, "2-lead", "3-lead", "3-LEAD", "4-lead"}

Scales == {2, 3}

\* the waveform with every sample multiplied by k
rescale(s, k) == [l \in DOMAIN s |-> [i \in 1..Len(s[l]) |-> k * s[l][i]]]

InitAxis ==
    /\ op = "axis"
    /\ pc = "call"
    /\ raised = None
    /\ fs \in AxisFrequencies
    /\ rpeaks \in SeqsUpTo(AxisPeakPositions, MaxAxisPeaks)
    /\ sig \in [AxisLeads -> LeadShapes]
    /\ method \in AxisMethods
    /\ axis_method \in SupportedMethods
    /\ method # None => axis_method = "2-lead"
    /\ decision_method = None
    /\ l_qrs = << >>
    /\ lead_I_positive = FALSE
    /\ lead_aVF_positive = FALSE
    /\ lead_II_positive = FALSE
    /\ axis = None
    /\ rescales = 0
    /\ RateIdle
    /\ PacingIdle
    /\ LQRSVIdle
    /\ ReaderIdle
    /\ ClassifierIdle
    /\ PoolIdle
    /\ SplitIdle

AxisReturn(s) ==
    \E out \in {electrical_axis_detector(s, rpeaks, fs, method, axis_method)} :
        /\ sig' = s
        /\ raised' = out.raised
        /\ decision_method' = out.decision_method
        /\ l_qrs' = out.l_qrs
        /\ lead_I_positive' = out.lead_I_positive
        /\ lead_aVF_positive' = out.lead_aVF_positive
        /\ lead_II_positive' = out.lead_II_positive
        /\ axis' = out.axis
        /\ pc' = "done"
        /\ UNCHANGED <<op, fs, rpeaks, method, axis_method, varsRate, varsPacing,
                       varsLQRSV, varsReader, varsClassifier, varsPool,
                   varsSplit>>

AxisCall ==
    /\ op = "axis"
    /\ pc = "call"
    /\ AxisReturn(sig)
    /\ UNCHANGED rescales

AxisCallRescaled ==
    /\ op = "axis"
    /\ pc = "done"
    /\ rescales = 0
    /\ rescales' = 1
    /\ \E k \in Scales : AxisReturn(rescale(sig, k))

NextAxis == AxisCall \/ AxisCallRescaled

SpecAxis == InitAxis /\ [][NextAxis]_vars

PacingSigLens == {1000, 3000}

PacingLeadsThresholds == {2, 3}

InitPacing ==
    /\ op = "pacing"
    /\ pc = "call"
    /\ raised = None
    /\ fs = 500
    /\ rpeaks = << >>
    /\ sig_len \in PacingSigLens
    /\ potential_spikes \in [1..NumLeads -> 0..MaxSpikes]
    /\ pr_spike_leads_threshold \in PacingLeadsThresholds
    /\ lead_has_enough_spikes = << >>
    /\ is_PR = FALSE
    /\ RateIdle
    /\ AxisIdle
    /\ LQRSVIdle
    /\ ReaderIdle
    /\ ClassifierIdle
    /\ PoolIdle
    /\ SplitIdle

PacingCall ==
    /\ op = "pacing"
    /\ pc = "call"
    /\ \E out \in {pacing_rhythm_decision(potential_spikes, sig_len, fs,
                                          pr_spike_leads_threshold)} :
          /\ raised' = out.raised
          /\ lead_has_enough_spikes' = out.lead_has_enough_spikes
          /\ is_PR' = out.is_PR
    /\ pc' = "done"
    /\ UNCHANGED <<op, fs, rpeaks, sig_len, potential_spikes,
                   pr_spike_leads_threshold, varsRate, varsAxis, varsLQRSV,
                   varsReader, varsClassifier, varsPool,
                   varsSplit>>

NextPacing == PacingCall

SpecPacing == InitPacing /\ [][NextPacing]_vars

\* waveforms of one lead, in 0.1 mV: the same amplitude v at every sample,
\* and amplitude lo around the first samples with amplitude hi after them
flat(v) == [i \in 1..LqSigLen |-> IF i % 2 = 1 THEN v ELSE -v]

mixed(lo, hi) == [i \in 1..LqSigLen |-> IF i <= 3 THEN lo ELSE -hi]

LimbShapes == {flat(3), flat(limb_ceiling), mixed(3, 8)}

PrecordialShapes == {flat(8), flat(precordial_ceiling), mixed(8, 14)}

\* number of leads of a group that carry the chosen shape
LowLeadCounts == {0, 3, 5, 6}

\* the six leads of a group: the first k have the shape, the others a
\* waveform above the ceiling of the group
group_leads(k, shape, other) == [j \in 1..6 |-> IF j <= k THEN shape ELSE other]

\* 12-lead waveforms, leads x samples, in the order of Standard12Leads
LqSignals ==
    { group_leads(kl, x, flat(8)) \o group_leads(kp, y, flat(14)) :
        kl \in LowLeadCounts, x \in LimbShapes,
        kp \in LowLeadCounts, y \in PrecordialShapes }

SigFormats == {"channel_first", "channel_last"}

\* sample indices of R peaks; the last one is past the end of the signal
LqPeakPositions == {1, 4, LqSigLen + 2}

LqRatioThresholds == {[num |-> 1, den |-> 2], [num |-> 5, den |-> 6]}

InitLQRSV ==
    /\ op = "lqrsv"
    /\ pc = "call"
    /\ raised = None
    /\ fs \in AxisFrequencies
    /\ rpeaks \in SeqsUpTo(LqPeakPositions, MaxLqPeaks)
    /\ sig_fmt \in SigFormats
    /\ \E s \in LqSignals :
          filtered_sig = IF sig_fmt = "channel_first" THEN s ELSE transpose(s)
    /\ lqrsv_ratio_threshold \in LqRatioThresholds
    /\ low_qrs_limb_flags = << >>
    /\ low_qrs_precordial_flags = << >>
    /\ low_qrs_limb_leads = NoRatio
    /\ low_qrs_precordial_leads = NoRatio
    /\ is_LQRSV = FALSE
    /\ RateIdle
    /\ AxisIdle
    /\ PacingIdle
    /\ ReaderIdle
    /\ ClassifierIdle
    /\ PoolIdle
    /\ SplitIdle

LQRSVCall ==
    /\ op = "lqrsv"
    /\ pc = "call"
    /\ \E out \in {LQRSV_detector(filtered_sig, rpeaks, fs, sig_fmt,
                                  lqrsv_ratio_threshold)} :
          /\ raised' = out.raised
          /\ filtered_sig' = out.filtered_sig
          /\ low_qrs_limb_flags' = out.low_qrs_limb_flags
          /\ low_qrs_precordial_flags' = out.low_qrs_precordial_flags
          /\ low_qrs_limb_leads' = out.low_qrs_limb_leads
          /\ low_qrs_precordial_leads' = out.low_qrs_precordial_leads
          /\ is_LQRSV' = out.is_LQRSV
    /\ pc' = "done"
    /\ UNCHANGED <<op, fs, rpeaks, sig_fmt, lqrsv_ratio_threshold, varsRate,
                   varsAxis, varsPacing, varsReader, varsClassifier, varsPool,
                   varsSplit>>

NextLQRSV == LQRSVCall

SpecLQRSV == InitLQRSV /\ [][NextLQRSV]_vars

Tranches == {"A", "C", "D", "F"}

\* digital samples of lead l: n values rising by 100 from 50 * (l - 1)
ramp(n, l) == [i \in 1..n |-> 100 * (i - 1) + 50 * (l - 1)]

Baselines == {0, 50}

\* ADC units per mV; 0 is a header without a usable gain
Gains == {0, 100, 200}

\* stored records: lead 1 has baseline 0 and gain 100, the other leads have
\* baseline b and gain g
Records ==
    { [tranche |-> t,
       digital |-> [l \in 1..NumRecLeads |-> ramp(n, l)],
       baseline |-> [l \in 1..NumRecLeads |-> IF l = 1 THEN 0 ELSE b],
       adc_gain |-> [l \in 1..NumRecLeads |-> IF l = 1 THEN 100 ELSE g],
       fs |-> reader_freq(t)] :
        t \in Tranches, n \in 1..MaxRecLen, b \in Baselines, g \in Gains }

DataFormats == {"channel_first", "channel_last"}

Backends == {"wfdb", "scipy", "pandas"}

Units == {"mV", "uV"}

TargetFrequencies == {<< >>, <<500>>, <<1000>>}

Siglens == {<< >>} \cup {<<k>> : k \in 2..MaxRecLen}

InitLoadData ==
    /\ op = "load_data"
    /\ pc = "call"
    /\ raised = None
    /\ fs = 500
    /\ rpeaks = << >>
    /\ record \in Records
    /\ args \in [data_format : DataFormats, backend : Backends, units : Units,
                  freq : TargetFrequencies, siglen : {<< >>}]
    /\ data = << >>
    /\ resample_calls = 0
    /\ files = {}
    /\ loads = 0
    /\ first_loaded = {}
    /\ RateIdle
    /\ AxisIdle
    /\ PacingIdle
    /\ LQRSVIdle
    /\ ClassifierIdle
    /\ PoolIdle
    /\ SplitIdle

LoadDataCall ==
    /\ op = "load_data"
    /\ pc = "call"
    /\ \E out \in {load_data(record, args.data_format, args.backend, args.units,
                             args.freq)} :
          /\ raised' = out.raised
          /\ data' = out.data
          /\ resample_calls' = out.resample_calls
    /\ pc' = "done"
    /\ UNCHANGED <<op, fs, rpeaks, record, args, files, loads, first_loaded,
                   varsRate, varsAxis, varsPacing, varsLQRSV, varsClassifier, varsPool,
                   varsSplit>>

InitLoadResampled ==
    /\ op = "load_resampled_data"
    /\ pc = "call"
    /\ raised = None
    /\ fs = 500
    /\ rpeaks = << >>
    /\ record \in Records
    /\ args = NoArgs
    /\ data = << >>
    /\ resample_calls = 0
    /\ files = {}
    /\ loads = 0
    /\ first_loaded = {}
    /\ RateIdle
    /\ AxisIdle
    /\ PacingIdle
    /\ LQRSVIdle
    /\ ClassifierIdle
    /\ PoolIdle
    /\ SplitIdle

\* one call of load_resampled_data on the record; the files written by the
\* earlier calls are on disk
LoadResampledCall ==
    /\ op = "load_resampled_data"
    /\ loads < MaxLoads
    /\ \E f \in DataFormats, n \in Siglens :
         \E out \in {load_resampled_data(record, f, n, files)} :
            /\ args' = [NoArgs EXCEPT !.data_format = f, !.siglen = n]
            /\ raised' = out.raised
            /\ data' = out.data
            /\ files' = out.files
            /\ resample_calls' = out.resample_calls
            /\ first_loaded' =
                  IF \E p \in first_loaded : p[1] = n THEN first_loaded
                  ELSE first_loaded \cup
                         {<<n, IF f = "channel_last" THEN transpose(out.data)
                               ELSE out.data, f>>}
    /\ loads' = loads + 1
    /\ pc' = "done"
    /\ UNCHANGED <<op, fs, rpeaks, record, varsRate, varsAxis, varsPacing,
                   varsLQRSV, varsClassifier, varsPool,
                   varsSplit>>

NextReader == LoadDataCall \/ LoadResampledCall

\* the recording and the header lines given to run_12ECG_classifier
ClassifierRecords ==
    {r \in Records : r.tranche \in {"A", "D"} /\ r.baseline[NumRecLeads] = 0}

DlClassLists == {<<"AF", "NSR">>, <<"AF", "STach">>}

\* scores of one class, in tenths
ScoreValues == {1, 3, 4, 6}

InitClassifier ==
    /\ op = "classify"
    /\ pc = "call"
    /\ raised = None
    /\ fs = 500
    /\ rpeaks = << >>
    /\ record \in ClassifierRecords
    /\ args = NoArgs
    /\ data = << >>
    /\ resample_calls = 0
    /\ files = {}
    /\ loads = 0
    /\ first_loaded = {}
    /\ freq = 0
    /\ partial_conclusion = NoFlags
    /\ tmp = << >>
    /\ dl_data = NoDlData
    /\ dl_classes \in DlClassLists
    /\ dl_scores = << >>
    /\ dl_conclusions = << >>
    /\ final_scores = << >>
    /\ final_conclusions = << >>
    /\ raw_sig = << >>
    /\ RateIdle
    /\ AxisIdle
    /\ PacingIdle
    /\ LQRSVIdle
    /\ PoolIdle
    /\ SplitIdle

\* raw_data = (raw_data - baseline) / adc_gain; freq = header.fs
Calibrate ==
    /\ op = "classify"
    /\ pc = "call"
    /\ data' = calibrate(record.digital, record.baseline, record.adc_gain)
    /\ freq' = record.fs
    /\ pc' = "calibrated"
    /\ UNCHANGED <<raw_sig, op,
                   raised, fs, rpeaks, record, args, resample_calls, files,
                   loads, first_loaded, partial_conclusion, tmp, dl_data,
                   dl_classes, dl_scores, dl_conclusions, final_scores,
                   final_conclusions, varsRate, varsAxis, varsPacing, varsLQRSV,
                   varsPool, varsSplit>>

\* if freq != ModelCfg.fs: resample_poly and freq = ModelCfg.fs
Resample ==
    /\ op = "classify"
    /\ pc = "calibrated"
    /\ IF needs_resampling(<<model_fs>>, freq)
       THEN /\ data' = resample_poly(data, model_fs, freq)
            /\ resample_calls' = resample_calls + 1
            /\ freq' = model_fs
       ELSE UNCHANGED <<data, resample_calls, freq>>
    /\ pc' = "resampled"
    /\ UNCHANGED <<raw_sig, op,
                   raised, fs, rpeaks, record, args, files, loads,
                   first_loaded, partial_conclusion, tmp, dl_data, dl_classes,
                   dl_scores, dl_conclusions, final_scores, final_conclusions,
                   varsRate, varsAxis, varsPacing, varsLQRSV,
                   varsPool, varsSplit>>

\* the special detectors on a copy of raw_data, and the rule-based vector;
\* the verdicts are those of the four detectors on the record
Detect ==
    /\ op = "classify"
    /\ pc = "resampled"
    /\ \E rate \in RateLabels, ax \in AxisLabels, pr \in BOOLEAN, lqrsv \in BOOLEAN :
          /\ conclusion' = rate
          /\ axis' = ax
          /\ is_PR' = pr
          /\ is_LQRSV' = lqrsv
          /\ partial_conclusion' = special_detectors(rate, ax, pr, lqrsv)
          /\ tmp' = rule_vector(special_detectors(rate, ax, pr, lqrsv))
    /\ raw_sig' = data
    /\ fs' = freq
    /\ pc' = "detected"
    /\ UNCHANGED <<op, raised, rpeaks, varsReader, freq, dl_data, dl_classes,
                   dl_scores, dl_conclusions, final_scores, final_conclusions,
                   normal_rr_range, mean_rr, nrr, shrinks,
                   sig, method, axis_method, decision_method, l_qrs,
                   lead_I_positive, lead_aVF_positive, lead_II_positive, rescales,
                   sig_len, potential_spikes, pr_spike_leads_threshold,
                   lead_has_enough_spikes,
                   filtered_sig, sig_fmt, lqrsv_ratio_threshold,
                   low_qrs_limb_flags, low_qrs_precordial_flags,
                   low_qrs_limb_leads, low_qrs_precordial_leads,
                   varsPool, varsSplit>>

\* dl_data made from a copy of raw_data
PrepareDL ==
    /\ op = "classify"
    /\ pc = "detected"
    /\ dl_data' = prepare_dl_data(data)
    /\ pc' = "prepared"
    /\ UNCHANGED <<raw_sig, op,
                   raised, fs, rpeaks, varsReader, freq, partial_conclusion,
                   tmp, dl_classes, dl_scores, dl_conclusions, final_scores,
                   final_conclusions, varsRate, varsAxis, varsPacing, varsLQRSV,
                   varsPool, varsSplit>>

\* the inference of the networks, the maximum of their scores per class, the
\* thresholding and the treatment of the exceptional cases
Infer ==
    /\ op = "classify"
    /\ pc = "prepared"
    /\ \E scores \in [1..Len(dl_classes) -> ScoreValues] :
         \E out \in {post_process(scores, dl_classes)} :
            /\ dl_scores' = scores
            /\ dl_conclusions' = out.dl_conclusions
            /\ raised' = out.raised
            /\ pc' = IF out.raised = None THEN "inferred" ELSE "done"
    /\ UNCHANGED <<raw_sig, op,
                   fs, rpeaks, varsReader, freq, partial_conclusion, tmp,
                   dl_data, dl_classes, final_scores, final_conclusions,
                   varsRate, varsAxis, varsPacing, varsLQRSV,
                   varsPool, varsSplit>>

\* the two pairs of vectors joined class by class and returned
Merge ==
    /\ op = "classify"
    /\ pc = "inferred"
    /\ final_scores' =
          merge([c \in 1..Len(tmp) |-> 10 * tmp[c]],
                extend_predictions(dl_scores, dl_classes, full_classes))
    /\ final_conclusions' =
          merge(tmp, extend_predictions(dl_conclusions, dl_classes, full_classes))
    /\ pc' = "done"
    /\ UNCHANGED <<raw_sig, op,
                   raised, fs, rpeaks, varsReader, freq, partial_conclusion,
                   tmp, dl_data, dl_classes, dl_scores, dl_conclusions,
                   varsRate, varsAxis, varsPacing, varsLQRSV,
                   varsPool, varsSplit>>

NextClassifier ==
    Calibrate \/ Resample \/ Detect \/ PrepareDL \/ Infer \/ Merge

\* the loader, the resampler and the classifier built on them
InitPipeline == InitLoadData \/ InitLoadResampled \/ InitClassifier

NextPipeline == NextReader \/ NextClassifier

SpecPipeline == InitPipeline /\ [][NextPipeline]_vars

\* the four detectors side by side: one call of one of them, on the
\* arguments of its own specification with at most MaxBankPeaks R peaks
InitBank ==
    \/ rpeaks \in SeqsUpTo(RatePeakPositions, MaxBankPeaks) /\ InitRate
    \/ rpeaks \in SeqsUpTo(AxisPeakPositions, MaxBankPeaks) /\ InitAxis
    \/ InitPacing
    \/ rpeaks \in SeqsUpTo(LqPeakPositions, MaxBankPeaks) /\ InitLQRSV

NextBank == RateCall \/ AxisCall \/ PacingCall \/ LQRSVCall

SpecBank == InitBank /\ [][NextBank]_vars

----------------------------------------------------------------------------
(* CINC2020 (dataset.py): the train-test split of one tranche *)

\* TrainCfg.input_len, the least number of samples of a record for training
input_len == 2

\* [c for c in rec_labels if c in TrainCfg.tranche_classes[t]]
rec_labels(rec, classes) == rec.labels \cap classes

\* the records of the tranche kept by the first loop, in their order: those
\* with a class of the tranche and at least input_len samples at 500 Hz
RECURSIVE valid_records(_, _, _)
valid_records(records, classes, k) ==
    IF k > Len(records) THEN << >>
    ELSE (IF rec_labels(records[k], classes) = {} \/ records[k].samples < input_len
          THEN << >> ELSE <<k>>)
            \o valid_records(records, classes, k + 1)

\* shuffle(x): every order of the elements of x
shuffle(x) ==
    {p \in [1..Len(x) -> {x[i] : i \in 1..Len(x)}] :
        \A i \in 1..Len(x) : \E j \in 1..Len(x) : p[j] = x[i]}

\* int(len(tranche_records[t]) * train_ratio), the ratio in percent
split_idx(n, ratio) == (n * ratio) \div 100

\* set(reduce(add, [get_labels(rec) for rec in recs]))
classes_of(recs, records) ==
    UNION {records[recs[i]].labels : i \in 1..Len(recs)}

\* _check_train_test_split_validity as a method; reduce raises TypeError on
\* an empty list of records
check_train_test_split_validity(tr, te, all_classes, records) ==
    IF tr = << >> \/ te = << >>
    THEN [raised |-> "TypeError", is_valid |-> FALSE]
    ELSE LET train_classes == classes_of(tr, records) \cap all_classes
             test_classes == classes_of(te, records) \cap all_classes
         IN  [raised |-> None,
              is_valid |->
                 /\ Cardinality(all_classes) = Cardinality(train_classes)
                 /\ Cardinality(train_classes) = Cardinality(test_classes)]

\* the classes of the tranche, and a class of another tranche
SplitClasses == {"AF", "PVC"}

\* records: one class, both classes, a class of another tranche only, and a
\* record too short for training
RecordKinds ==
    { [labels |-> {"AF"}, samples |-> input_len],
      [labels |-> {"PVC", "STach"}, samples |-> input_len],
      [labels |-> {"AF", "PVC"}, samples |-> input_len + 1],
      [labels |-> {"STach"}, samples |-> input_len],
      [labels |-> {"AF", "PVC"}, samples |-> input_len - 1] }

TrainRatios == {50, 80}

InitSplit ==
    /\ op \in {"split", "check"}
    /\ pc = "call"
    /\ raised = None
    /\ fs = 500
    /\ rpeaks = << >>
    /\ all_records \in SeqsUpTo(RecordKinds, MaxRecords)
    /\ tranche_classes = SplitClasses
    /\ train_ratio \in TrainRatios
    /\ tranche_records = << >>
    /\ IF op = "split"
       THEN train = << >> /\ test = << >>
       ELSE \E k \in 0..Len(all_records) :
               /\ train = [i \in 1..k |-> i]
               /\ test = [i \in 1..(Len(all_records) - k) |-> k + i]
    /\ is_valid = FALSE
    /\ RateIdle
    /\ AxisIdle
    /\ PacingIdle
    /\ LQRSVIdle
    /\ ReaderIdle
    /\ ClassifierIdle
    /\ PoolIdle

\* the first loop of _train_test_split: tranche_records[t]
CollectRecords ==
    /\ op = "split"
    /\ pc = "call"
    /\ tranche_records' = valid_records(all_records, tranche_classes, 1)
    /\ pc' = "collected"
    /\ UNCHANGED <<op, raised, fs, rpeaks, all_records, tranche_classes,
                   train_ratio, train, test, is_valid, varsRate, varsAxis,
                   varsPacing, varsLQRSV, varsReader, varsClassifier, varsPool>>

\* the first pass of the while loop: shuffle, split, and the call of the
\* validity check by a name that is not defined in the module (the method
\* is an attribute of self), which raises NameError
SplitPass ==
    /\ op = "split"
    /\ pc = "collected"
    /\ ~is_valid
    /\ \E shuffled \in shuffle(tranche_records) :
          /\ tranche_records' = shuffled
          /\ train' = SubSeq(shuffled, 1,
                             split_idx(Len(shuffled), train_ratio))
          /\ test' = SubSeq(shuffled,
                            split_idx(Len(shuffled), train_ratio) + 1,
                            Len(shuffled))
    /\ raised' = "NameError"
    /\ pc' = "done"
    /\ UNCHANGED <<op, fs, rpeaks, all_records, tranche_classes, train_ratio,
                   is_valid, varsRate, varsAxis, varsPacing, varsLQRSV,
                   varsReader, varsClassifier, varsPool>>

\* a call of the method _check_train_test_split_validity on an instance
CheckCall ==
    /\ op = "check"
    /\ pc = "call"
    /\ \E out \in {check_train_test_split_validity(train, test, tranche_classes,
                                                    all_records)} :
          /\ raised' = out.raised
          /\ is_valid' = out.is_valid
    /\ pc' = "done"
    /\ UNCHANGED <<op, fs, rpeaks, all_records, tranche_classes, train_ratio,
                   tranche_records, train, test, varsRate, varsAxis, varsPacing,
                   varsLQRSV, varsReader, varsClassifier, varsPool>>

NextSplit == CollectRecords \/ SplitPass \/ CheckCall

SpecSplit == InitSplit /\ [][NextSplit]_vars

\* the four detectors as tasks of a pool, on the same arrays and R peaks: a
\* step runs one task that has not run yet, whichever it is.  The leads of
\* pacing_rhythm_detector are tasks of their own (the pool.starmap of the
\* detector), and the detector goes on when all of them are done
Tasks == {"rate", "axis", "pacing", "lqrsv"}

Pending == [done |-> FALSE, exception |-> None]

Finished(e) == [done |-> TRUE, exception |-> e]

\* lead_I, lead_II and lead_aVF: rows of the copy s of the 12-lead array
axis_leads(fsig) ==
    [l \in AxisLeads |-> fsig[list_index(Standard12Leads, l) + 1]]

\* the filtered 12-lead arrays of the pool: leads II and aVF turn from small
\* and positive to large and negative, lead I does the same or the
\* opposite, and the other leads swing evenly
PoolSignals ==
    { <<x, mixed(3, 8), flat(8), flat(8), flat(8), mixed(3, 8)>>
         \o group_leads(6, flat(8), flat(14)) :
        x \in {mixed(8, 3), mixed(3, 8)} }

PoolPeakPositions == {1, 4}

PoolFrequency == 1000

\* number of samples of the unfiltered array
PoolSigLen == 3000

\* the unfiltered array as pacing_rhythm_detector sees it: the number of
\* spikes that the filter and detect_peaks leave in each lead
PoolSpikes ==
    { [l \in 1..NumLeads |-> 2],
      [l \in 1..NumLeads |-> IF l = 1 THEN 1 ELSE 2],
      [l \in 1..NumLeads |-> IF l = NumLeads THEN 0 ELSE 2] }

InitPool ==
    /\ op = "pool"
    /\ pc = "call"
    /\ raised = None
    /\ fs = PoolFrequency
    /\ rpeaks \in SeqsUpTo(PoolPeakPositions, MaxBankPeaks)
    /\ futures = [t \in Tasks |-> Pending]
    /\ lead_futures = [l \in 1..NumLeads |-> Pending]
    /\ normal_rr_range = << >>
    /\ mean_rr = NaN
    /\ nrr = << >>
    /\ conclusion = None
    /\ shrinks = 0
    /\ filtered_sig \in PoolSignals
    /\ sig_fmt = "channel_first"
    /\ lqrsv_ratio_threshold = [num |-> 1, den |-> 2]
    /\ low_qrs_limb_flags = << >>
    /\ low_qrs_precordial_flags = << >>
    /\ low_qrs_limb_leads = NoRatio
    /\ low_qrs_precordial_leads = NoRatio
    /\ is_LQRSV = FALSE
    /\ sig = [l \in AxisLeads |-> << >>]
    /\ method = None
    /\ axis_method \in SupportedMethods
    /\ decision_method = None
    /\ l_qrs = << >>
    /\ lead_I_positive = FALSE
    /\ lead_aVF_positive = FALSE
    /\ lead_II_positive = FALSE
    /\ axis = None
    /\ rescales = 0
    /\ raw_sig \in PoolSpikes
    /\ sig_len = PoolSigLen
    /\ potential_spikes = [l \in 1..NumLeads |-> 0]
    /\ pr_spike_leads_threshold = NumLeads
    /\ lead_has_enough_spikes = << >>
    /\ is_PR = FALSE
    /\ freq = 0
    /\ partial_conclusion = NoFlags
    /\ tmp = << >>
    /\ dl_data = NoDlData
    /\ dl_classes = << >>
    /\ dl_scores = << >>
    /\ dl_conclusions = << >>
    /\ final_scores = << >>
    /\ final_conclusions = << >>
    /\ ReaderIdle
    /\ SplitIdle

\* the task of detector t ends, with exception e or with its verdict
TaskEnds(t, e) ==
    /\ op = "pool"
    /\ ~futures[t].done
    /\ futures' = [futures EXCEPT ![t] = Finished(e)]
    /\ pc' = IF \A u \in Tasks \ {t} : futures[u].done THEN "done" ELSE "running"
    /\ UNCHANGED <<op, raised, fs, rpeaks, varsReader, varsSplit, freq,
                   partial_conclusion, tmp, dl_data, dl_classes, dl_scores,
                   dl_conclusions, final_scores, final_conclusions, raw_sig>>

RateTask ==
    /\ \E out \in {brady_tachy_detector(rpeaks, fs, normal_rr_range)} :
          /\ TaskEnds("rate", out.raised)
          /\ mean_rr' = out.mean_rr
          /\ nrr' = out.nrr
          /\ conclusion' = out.conclusion
    /\ UNCHANGED <<normal_rr_range, shrinks, varsAxis, varsPacing, varsLQRSV,
                   lead_futures>>

\* s = filtered_sig.copy() is taken when the task runs
AxisTask ==
    /\ \E out \in {electrical_axis_detector(axis_leads(filtered_sig), rpeaks, fs,
                                            method, axis_method)} :
          /\ TaskEnds("axis", out.raised)
          /\ sig' = axis_leads(filtered_sig)
          /\ decision_method' = out.decision_method
          /\ l_qrs' = out.l_qrs
          /\ lead_I_positive' = out.lead_I_positive
          /\ lead_aVF_positive' = out.lead_aVF_positive
          /\ lead_II_positive' = out.lead_II_positive
          /\ axis' = out.axis
    /\ UNCHANGED <<method, axis_method, rescales, varsRate, varsPacing, varsLQRSV,
                   lead_futures>>

LQRSVTask ==
    /\ \E out \in {LQRSV_detector(filtered_sig, rpeaks, fs, sig_fmt,
                                  lqrsv_ratio_threshold)} :
          /\ TaskEnds("lqrsv", out.raised)
          /\ filtered_sig' = out.filtered_sig
          /\ low_qrs_limb_flags' = out.low_qrs_limb_flags
          /\ low_qrs_precordial_flags' = out.low_qrs_precordial_flags
          /\ low_qrs_limb_leads' = out.low_qrs_limb_leads
          /\ low_qrs_precordial_leads' = out.low_qrs_precordial_leads
          /\ is_LQRSV' = out.is_LQRSV
    /\ UNCHANGED <<sig_fmt, lqrsv_ratio_threshold, varsRate, varsAxis, varsPacing,
                   lead_futures>>

\* the filtering and the spike detection of one lead, whichever lead comes
\* next; its result goes to the slot of the lead
PacingLeadTask ==
    /\ op = "pool"
    /\ \E l \in 1..NumLeads :
          /\ ~lead_futures[l].done
          /\ lead_futures' = [lead_futures EXCEPT ![l] = Finished(None)]
          /\ potential_spikes' = [potential_spikes EXCEPT ![l] = raw_sig[l]]
    /\ pc' = "running"
    /\ UNCHANGED <<op, raised, fs, rpeaks, futures, sig_len,
                   pr_spike_leads_threshold, lead_has_enough_spikes, is_PR,
                   varsRate, varsAxis, varsLQRSV, varsReader, varsClassifier,
                   varsSplit>>

\* the decision of pacing_rhythm_detector, once every lead is done
PacingTask ==
    /\ \A l \in 1..NumLeads : lead_futures[l].done
    /\ \E out \in {pacing_rhythm_decision(potential_spikes, sig_len, fs,
                                          pr_spike_leads_threshold)} :
          /\ TaskEnds("pacing", out.raised)
          /\ lead_has_enough_spikes' = out.lead_has_enough_spikes
          /\ is_PR' = out.is_PR
    /\ UNCHANGED <<sig_len, potential_spikes, pr_spike_leads_threshold, varsRate,
                   varsAxis, varsLQRSV, lead_futures>>

NextPool == RateTask \/ AxisTask \/ LQRSVTask \/ PacingLeadTask \/ PacingTask

SpecPool == InitPool /\ [][NextPool]_vars

----------------------------------------------------------------------------
(* Properties of brady_tachy_detector *)

RateReturned == op = "rate" /\ pc = "done" /\ raised = None

Min(S) == CHOOSE x \in S : \A y \in S : x <= y

Max(S) == CHOOSE x \in S : \A y \in S : x >= y

\* the thresholds as supplied (or the configured pair), converted to samples
ThresholdsInSamples ==
    LET ms == IF normal_rr_range = << >>
              THEN <<tachy_threshold, brady_threshold>> ELSE normal_rr_range
    IN  {ms2samples(ms[i], fs) : i \in 1..Len(ms)}

\* sum and number of the successive R-R intervals of the R-peak array
IntervalCount == IF Len(rpeaks) = 0 THEN 0 ELSE Len(rpeaks) - 1

IntervalSum == SumSeq([i \in 1..IntervalCount |-> rpeaks[i + 1] - rpeaks[i]])

MeanBelow(k) == IntervalCount > 0 /\ IntervalSum < k * IntervalCount

MeanAbove(k) == IntervalCount > 0 /\ IntervalSum > k * IntervalCount

UniformSpacing(d) ==
    /\ Len(rpeaks) >= 2
    /\ \A i \in 1..(Len(rpeaks) - 1) : rpeaks[i + 1] - rpeaks[i] = d

ScenarioThresholds ==
    normal_rr_range \in {<< >>, <<600, 1000>>, <<1000, 600>>}

\* C1: with lower/upper the smaller/larger threshold in samples, the verdict
\* is T iff the mean R-R interval is strictly below lower, B iff strictly
\* above upper, N otherwise; 500-sample spacing at 500 Hz with 600/1000 ms
\* (mean equal to the upper bound) is N.
C1_RateVerdict ==
    RateReturned =>
        LET lower == Min(ThresholdsInSamples)
            upper == Max(ThresholdsInSamples)
        IN  /\ conclusion \in RateLabels
            /\ conclusion = "T" <=> MeanBelow(lower)
            /\ conclusion = "B" <=> MeanAbove(upper)
            /\ conclusion = "N" <=> ~MeanBelow(lower) /\ ~MeanAbove(upper)
            /\ (rpeaks = <<100, 600, 1100, 1600>> /\ fs = 500 /\ ScenarioThresholds)
                    => conclusion = "N"

C1_Witness ==
    /\ RateReturned
    /\ rpeaks = <<100, 600, 1100, 1600>>
    /\ fs = 500
    /\ normal_rr_range = <<1000, 600>>
    /\ conclusion = "N"

\* C2 as stated: 300-sample spacing at 500 Hz with 600/1000 ms is Tachycardia.
C2_Original ==
    (RateReturned /\ fs = 500 /\ ScenarioThresholds /\ UniformSpacing(300))
        => conclusion = "T"

\* C2 amended: 300-sample spacing at 500 Hz with 600/1000 ms is Normal: the
\* mean (300 samples) equals the lower bound and is not strictly below it.
C2_Amended ==
    (RateReturned /\ fs = 500 /\ ScenarioThresholds /\ UniformSpacing(300))
        => conclusion = "N"

C2_Witness ==
    /\ RateReturned
    /\ fs = 500
    /\ normal_rr_range = <<600, 1000>>
    /\ rpeaks = <<100, 400, 700>>
    /\ conclusion = "N"

\* C3 as stated: a call with fewer than 2 R-peaks fails (with the error the
\* code has for too few peaks, whatever its name) and returns no verdict.
C3_InsufficientPeaks ==
    (op = "rate" /\ pc = "done" /\ Len(rpeaks) < 2)
        => (raised # None /\ conclusion \notin RateLabels)

RateRank(c) == IF c = "B" THEN 0 ELSE IF c = "N" THEN 1 ELSE 2

ShortenedCall ==
    op = "rate" /\ pc = "done" /\ pc' = "done" /\ shrinks' = shrinks + 1
    /\ raised' = None

\* C10: shortening every R-R interval by the same amount moves the verdict
\* only forwards in the order B, N, T, and B becomes T only when the mean
\* went from above the upper bound to below the lower bound.
C10_RateMonotonic ==
    [][ShortenedCall =>
          /\ RateRank(conclusion') >= RateRank(conclusion)
          /\ (conclusion = "B" /\ conclusion' = "T") =>
                (MeanGt(mean_rr, nrr[2]) /\ MeanLt(mean_rr', nrr[1]))]_vars

\* a shortened call answered T where the call before it answered B
C10_Witness ==
    /\ RateReturned
    /\ shrinks >= 1
    /\ conclusion = "T"
    /\ \E d \in ShrinkSteps :
          MeanGt([sum |-> mean_rr.sum + d * mean_rr.n, n |-> mean_rr.n], nrr[2])

\* the last R peak minus the first
PeakSpan == rpeaks[Len(rpeaks)] - rpeaks[1]

\* the verdict for a mean R-R interval of span / count
EndpointVerdict(span, count) ==
    IF span < Min(ThresholdsInSamples) * count THEN "T"
    ELSE IF span > Max(ThresholdsInSamples) * count THEN "B"
    ELSE "N"

\* C29: for an R-peak array of two or more peaks, increasing or not, the
\* mean R-R interval of brady_tachy_detector is (last - first) / (count - 1)
\* and the verdict is a function of the first peak, the last peak and the
\* number of peaks; the peaks between them have no effect.
C29_EndpointsOnly ==
    (RateReturned /\ Len(rpeaks) >= 2) =>
        /\ mean_rr.n = Len(rpeaks) - 1
        /\ mean_rr.sum = PeakSpan
        /\ conclusion = EndpointVerdict(PeakSpan, Len(rpeaks) - 1)

\* a call on peaks that are not in increasing order between the first and
\* the last one
C29_Witness ==
    /\ RateReturned
    /\ Len(rpeaks) >= 3
    /\ rpeaks[2] > rpeaks[3]
    /\ rpeaks[1] < rpeaks[Len(rpeaks)]
    /\ conclusion = EndpointVerdict(PeakSpan, Len(rpeaks) - 1)

----------------------------------------------------------------------------
(* Properties of electrical_axis_detector *)

AxisReturned == op = "axis" /\ pc = "done" /\ raised = None

\* C6: under '2-lead' LAD iff I positive and aVF not, RAD iff I not positive
\* and aVF positive, otherwise normal; under '3-lead' LAD iff I positive and
\* neither II nor aVF positive, RAD as before, otherwise normal; I and aVF
\* both positive is normal under '2-lead'.
C6_AxisDecision ==
    AxisReturned =>
        LET pI == lead_I_positive
            pII == lead_II_positive
            pF == lead_aVF_positive
            lad == IF decision_method = "2-lead" THEN pI /\ ~pF
                   ELSE pI /\ ~pII /\ ~pF
            rad == ~pI /\ pF
        IN  /\ decision_method \in {"2-lead", "3-lead"}
            /\ axis \in AxisLabels
            /\ axis = "LAD" <=> lad
            /\ axis = "RAD" <=> rad
            /\ axis = "normal" <=> (~lad /\ ~rad)
            /\ (decision_method = "2-lead" /\ pI /\ pF) => axis = "normal"

C6_Witness ==
    /\ AxisReturned
    /\ decision_method = "2-lead"
    /\ lead_I_positive
    /\ lead_aVF_positive
    /\ axis = "normal"

\* the QRS windows of a lead whose maximum exceeds the absolute value of
\* their minimum
PositiveWindows(l) ==
    {i \in 1..Len(l_qrs) :
        LET w == py_slice(sig[l], l_qrs[i][1], l_qrs[i][2])
        IN  SeqMax(w) > Abs(SeqMin(w))}

StrictMajority(l) ==
    /\ 2 * Cardinality(PositiveWindows(l)) > Len(l_qrs)
    /\ Cardinality(PositiveWindows(l)) > Len(l_qrs) \div 2

\* C7: a lead is positive iff the number of its net-positive QRS windows is
\* strictly greater than half the number of windows (count > total // 2);
\* exactly half of an even number of windows is not positive.
C7_StrictMajority ==
    AxisReturned =>
        /\ Len(l_qrs) = Len(rpeaks)
        /\ lead_I_positive <=> StrictMajority("I")
        /\ lead_II_positive <=> StrictMajority("II")
        /\ lead_aVF_positive <=> StrictMajority("aVF")
        /\ \A l \in AxisLeads :
              2 * Cardinality(PositiveWindows(l)) > Len(l_qrs)
                <=> Cardinality(PositiveWindows(l)) > Len(l_qrs) \div 2

\* two windows, exactly one of them net positive on lead I
C7_Witness ==
    /\ AxisReturned
    /\ Len(l_qrs) = 2
    /\ Cardinality(PositiveWindows("I")) = 1
    /\ ~lead_I_positive

CaseInsensitiveSupported(str) ==
    str \in {"2-lead", "2-LEAD", "2-Lead", "3-lead", "3-LEAD", "3-Lead"}

RescaledCall == op = "axis" /\ pc = "done" /\ pc' = "done" /\ rescales' = rescales + 1

\* C9: the verdict (label or exception) of a call on the waveform with every
\* sample multiplied by the same positive constant is the verdict of the call
\* on the waveform itself.
C9_ScaleInvariant ==
    [][RescaledCall => (axis' = axis /\ raised' = raised)]_vars

C9_Witness ==
    /\ AxisReturned
    /\ rescales = 1
    /\ sig \notin [AxisLeads -> LeadShapes]
    /\ axis = "LAD"

\* the verdict of either method on the lead polarities of the call
Verdict2Lead ==
    axis_decision("2-lead", lead_I_positive, lead_II_positive, lead_aVF_positive)

Verdict3Lead ==
    axis_decision("3-lead", lead_I_positive, lead_II_positive, lead_aVF_positive)

\* C26: on the same lead polarities, LAD under '3-lead' implies LAD under
\* '2-lead', RAD holds under one method iff it holds under the other, and
\* the two verdicts differ exactly when leads I and II are positive and aVF
\* is not, where '2-lead' gives LAD and '3-lead' gives normal; the verdict
\* returned is the one of the method of the call.
C26_MethodRefinement ==
    AxisReturned =>
        /\ axis = IF decision_method = "2-lead" THEN Verdict2Lead
                  ELSE Verdict3Lead
        /\ Verdict3Lead = "LAD" => Verdict2Lead = "LAD"
        /\ Verdict3Lead = "RAD" <=> Verdict2Lead = "RAD"
        /\ Verdict2Lead # Verdict3Lead
              <=> (lead_I_positive /\ lead_II_positive /\ ~lead_aVF_positive)
        /\ (lead_I_positive /\ lead_II_positive /\ ~lead_aVF_positive)
              => (Verdict2Lead = "LAD" /\ Verdict3Lead = "normal")

\* a call under '3-lead' with leads I and II positive and aVF not: normal,
\* where '2-lead' gives LAD
C26_Witness ==
    /\ AxisReturned
    /\ decision_method = "3-lead"
    /\ lead_I_positive
    /\ lead_II_positive
    /\ ~lead_aVF_positive
    /\ axis = "normal"
    /\ Verdict2Lead = "LAD"

\* the QRS windows have been built: the method was accepted
WindowsBuilt == op = "axis" /\ pc = "done" /\ raised # "AssertionError"

\* the radius of the QRS window in samples
AxisRadius == (axis_qrs_mask_radius * fs) \div 1000

ClippedStart(r) == IF r - AxisRadius < 0 THEN 0 ELSE r - AxisRadius

ClippedEnd(r) == IF r + AxisRadius > SigLen - 1 THEN SigLen - 1 ELSE r + AxisRadius

\* C22: for every R peak r with 0 <= r < signal length, the QRS interval of
\* electrical_axis_detector is (max(0, r - radius), min(length - 1,
\* r + radius)), with 0 <= start <= end < length; there is one interval per
\* peak, so a window reaching past an end of the signal is clipped and
\* not dropped.
C22_ClippedIntervals ==
    WindowsBuilt =>
        /\ Len(l_qrs) = Len(rpeaks)
        /\ \A i \in 1..Len(rpeaks) :
              (0 <= rpeaks[i] /\ rpeaks[i] < SigLen) =>
                 /\ l_qrs[i] = <<ClippedStart(rpeaks[i]), ClippedEnd(rpeaks[i])>>
                 /\ 0 <= l_qrs[i][1]
                 /\ l_qrs[i][1] <= l_qrs[i][2]
                 /\ l_qrs[i][2] < SigLen

\* a call with a peak whose window is clipped at the start and a peak whose
\* window is clipped at the end of the signal
C22_Witness ==
    /\ WindowsBuilt
    /\ \E i \in 1..Len(rpeaks) :
          /\ rpeaks[i] - AxisRadius < 0
          /\ l_qrs[i] = <<0, rpeaks[i] + AxisRadius>>
    /\ \E i \in 1..Len(rpeaks) :
          /\ rpeaks[i] < SigLen
          /\ rpeaks[i] + AxisRadius > SigLen - 1
          /\ l_qrs[i] = <<rpeaks[i] - AxisRadius, SigLen - 1>>

\* the window of a peak r is not clipped
Unclipped(r) == r - AxisRadius >= 0 /\ r + AxisRadius <= SigLen - 1

\* the samples of lead l at the indices r - radius through r + radius
SymmetricWindow(l, r) ==
    [k \in 1..(2 * AxisRadius + 1) |-> sig[l][r - AxisRadius + k]]

\* the peaks whose symmetric window is net positive on lead l
SymmetricPositive(l) ==
    {i \in 1..Len(rpeaks) :
        SeqMax(SymmetricWindow(l, rpeaks[i]))
            > Abs(SeqMin(SymmetricWindow(l, rpeaks[i])))}

LeadFlag(l) ==
    IF l = "I" THEN lead_I_positive
    ELSE IF l = "II" THEN lead_II_positive
    ELSE lead_aVF_positive

\* C23 as stated: when no window is clipped, the polarity test reads the
\* samples at the indices r - radius through r + radius of every peak r,
\* the sample at the end index of the interval included, so a lead is
\* positive iff most of these symmetric windows are net positive.
C23_SymmetricWindow ==
    (AxisReturned /\ \A i \in 1..Len(rpeaks) : Unclipped(rpeaks[i])) =>
        \A l \in AxisLeads :
            /\ \A i \in 1..Len(rpeaks) :
                  qrs_window(sig[l], l_qrs[i]) = SymmetricWindow(l, rpeaks[i])
            /\ LeadFlag(l) <=>
                  Cardinality(SymmetricPositive(l)) > Len(rpeaks) \div 2

ValidPeakSet(peaks, n) ==
    /\ \A i \in 1..Len(peaks) : 0 <= peaks[i] /\ peaks[i] < n
    /\ \A i \in 1..(Len(peaks) - 1) : peaks[i] < peaks[i + 1]

\* C5 as stated: an R-peak sequence that is not strictly increasing or holds
\* an index outside [0, signal_length) makes the detector fail (with the
\* error the code has for an invalid peak set, whatever its name), and no
\* verdict is produced from it.
C5_InvalidPeakSet ==
    (op = "axis" /\ pc = "done" /\ ~ValidPeakSet(rpeaks, SigLen))
        => (raised # None /\ axis = None)

----------------------------------------------------------------------------
(* Properties of the detector bank *)

ErrorTaxonomy ==
    {"CalibrationError", "InsufficientLengthError", "InsufficientPeaksError",
     "InvalidPeakSetError", "UnsupportedMethodError"}

\* C4 as stated: a detector returns a verdict of its declared type or raises
\* one of the five errors of the taxonomy, also for a lead with no pacing
\* spike; no other failure occurs.
C4_VerdictOrTaxonomyError ==
    (op = "pacing" /\ pc = "done") =>
        \/ raised = None /\ is_PR \in BOOLEAN
        \/ raised \in ErrorTaxonomy

----------------------------------------------------------------------------
----------------------------------------------------------------------------
(* Properties of pacing_rhythm_detector *)

PacingDone == op = "pacing" /\ pc = "done"

\* the leads whose signal duration divided by their own spike count is
\* strictly below the inverse-density threshold; a lead without spikes has
\* no such quotient and is not one of them
DenseLeads ==
    {l \in 1..Len(potential_spikes) :
        /\ potential_spikes[l] > 0
        /\ sig_len * 1000 < pr_spike_inv_density_threshold * potential_spikes[l] * fs}

\* C13: pacing_rhythm_detector returns true exactly when the number of leads
\* whose duration / spike count is strictly below the inverse-density
\* threshold is at least the lead-count threshold, each lead being judged
\* from its own spikes only.
C13_DenseLeadCount ==
    PacingDone =>
        ((raised = None /\ is_PR)
            <=> Cardinality(DenseLeads) >= pr_spike_leads_threshold)

----------------------------------------------------------------------------
(* Properties of LQRSV_detector *)

LQRSVReturned == op = "lqrsv" /\ pc = "done" /\ raised = None

\* the ratio counts the low instances among the instances of the group,
\* one instance per R peak and lead of the group
RatioOfInstances(ratio, flags) ==
    /\ ratio.den = Len(flags)
    /\ ratio.den = 6 * Len(rpeaks)
    /\ ratio.num = Cardinality({i \in 1..Len(flags) : flags[i]})

RatioInUnitInterval(ratio) ==
    ratio.den > 0 /\ 0 <= ratio.num /\ ratio.num <= ratio.den

ReachesThreshold(ratio) ==
    ratio.num * lqrsv_ratio_threshold.den
        >= lqrsv_ratio_threshold.num * ratio.den

EqualsThreshold(ratio) ==
    ratio.num * lqrsv_ratio_threshold.den
        = lqrsv_ratio_threshold.num * ratio.den

\* C11: when LQRSV_detector returns, the ratio of low-amplitude instances of
\* the limb group and of the precordial group each lie in [0, 1], and the
\* verdict is true exactly when at least one of the two ratios is greater
\* than or equal to the configured ratio threshold.
C11_RatioVerdict ==
    LQRSVReturned =>
        /\ RatioOfInstances(low_qrs_limb_leads, low_qrs_limb_flags)
        /\ RatioOfInstances(low_qrs_precordial_leads, low_qrs_precordial_flags)
        /\ RatioInUnitInterval(low_qrs_limb_leads)
        /\ RatioInUnitInterval(low_qrs_precordial_leads)
        /\ is_LQRSV <=> (ReachesThreshold(low_qrs_limb_leads)
                            \/ ReachesThreshold(low_qrs_precordial_leads))

\* a verdict of true given by a limb ratio equal to the threshold alone
C11_Witness ==
    /\ LQRSVReturned
    /\ is_LQRSV
    /\ EqualsThreshold(low_qrs_limb_leads)
    /\ ~ReachesThreshold(low_qrs_precordial_leads)
    /\ low_qrs_precordial_leads.num > 0

\* sample j (counted from 0) of the lead at position k (counted from 1) of
\* Standard12Leads, read from the array in its layout
SampleOf(k, j) ==
    IF sig_fmt = "channel_first" THEN filtered_sig[k][j + 1]
    ELSE filtered_sig[j + 1][k]

SamplesPerLead ==
    IF sig_fmt = "channel_first" THEN Len(filtered_sig[1]) ELSE Len(filtered_sig)

\* the sample indices of the QRS window around R peak r
WindowAround(r) ==
    LET radius == (lqrsv_qrs_mask_radius * fs) \div 1000
    IN  {j \in 0..(SamplesPerLead - 1) : r - radius <= j /\ j < r + radius}

\* the maximum absolute amplitude of lead k in the window around R peak r
WindowPeak(r, k) == Max({Abs(SampleOf(k, j)) : j \in WindowAround(r)})

\* instance (p, k): the window around the p-th R peak in the k-th lead of
\* the group; it is counted low when its flag is set
LimbLow(p, k) == low_qrs_limb_flags[(p - 1) * 6 + k]

PrecordialLow(p, k) == low_qrs_precordial_flags[(p - 1) * 6 + k]

\* C12 as stated: an instance is counted low exactly when the maximum
\* absolute amplitude in its window is below the ceiling of its lead class,
\* so a window whose peak equals the ceiling is not counted.
C12_Original ==
    LQRSVReturned =>
        \A p \in 1..Len(rpeaks), k \in 1..6 :
            /\ LimbLow(p, k) <=> WindowPeak(rpeaks[p], k) < limb_ceiling
            /\ PrecordialLow(p, k)
                  <=> WindowPeak(rpeaks[p], 6 + k) < precordial_ceiling

\* C12: an instance is counted low exactly when the maximum absolute
\* amplitude in its window is at or below the ceiling of its lead class
\* (0.5 mV + bias for the six limb leads, 1 mV + bias for V1..V6); a window
\* whose peak equals the ceiling is counted low.
C12_Amended ==
    LQRSVReturned =>
        \A p \in 1..Len(rpeaks), k \in 1..6 :
            /\ LimbLow(p, k) <=> WindowPeak(rpeaks[p], k) <= limb_ceiling
            /\ PrecordialLow(p, k)
                  <=> WindowPeak(rpeaks[p], 6 + k) <= precordial_ceiling

\* a limb window and a precordial window at their ceilings, both counted
\* low, next to windows above the ceilings that are not counted
C12_Witness ==
    /\ LQRSVReturned
    /\ \E p \in 1..Len(rpeaks), k \in 1..6 :
          WindowPeak(rpeaks[p], k) = limb_ceiling /\ LimbLow(p, k)
    /\ \E p \in 1..Len(rpeaks), k \in 1..6 :
          WindowPeak(rpeaks[p], 6 + k) = precordial_ceiling /\ PrecordialLow(p, k)
    /\ \E p \in 1..Len(rpeaks), k \in 1..6 :
          WindowPeak(rpeaks[p], k) > limb_ceiling /\ ~LimbLow(p, k)
    /\ \E p \in 1..Len(rpeaks), k \in 1..6 :
          WindowPeak(rpeaks[p], 6 + k) > precordial_ceiling /\ ~PrecordialLow(p, k)

----------------------------------------------------------------------------
(* Properties of the four detectors together *)

\* a step that is one call of a detector, from its arguments to its return
DetectorCalled ==
    /\ op \in {"rate", "axis", "pacing", "lqrsv"}
    /\ pc = "call"
    /\ pc' = "done"

----------------------------------------------------------------------------
(* Properties of the detectors run as tasks *)

\* the arrays, the R peaks and the settings the tasks were given
PoolInputs ==
    <<rpeaks, fs, filtered_sig, sig_fmt, raw_sig, sig_len, normal_rr_range,
      method, axis_method, lqrsv_ratio_threshold, pr_spike_leads_threshold>>

\* what the detectors give on these inputs when called one after the other
SequentialRate == brady_tachy_detector(rpeaks, fs, normal_rr_range)

SequentialAxis ==
    electrical_axis_detector(axis_leads(filtered_sig), rpeaks, fs, method,
                             axis_method)

SequentialPacing ==
    pacing_rhythm_decision(raw_sig, sig_len, fs, pr_spike_leads_threshold)

SequentialLQRSV ==
    LQRSV_detector(filtered_sig, rpeaks, fs, sig_fmt, lqrsv_ratio_threshold)

TasksAgreeWithSequential ==
    /\ futures["rate"].done =>
          /\ futures["rate"].exception = SequentialRate.raised
          /\ conclusion = SequentialRate.conclusion
    /\ futures["axis"].done =>
          /\ futures["axis"].exception = SequentialAxis.raised
          /\ axis = SequentialAxis.axis
    /\ futures["lqrsv"].done =>
          /\ futures["lqrsv"].exception = SequentialLQRSV.raised
          /\ is_LQRSV = SequentialLQRSV.is_LQRSV
    /\ \A l \in 1..NumLeads :
          lead_futures[l].done => potential_spikes[l] = raw_sig[l]
    /\ futures["pacing"].done =>
          /\ futures["pacing"].exception = SequentialPacing.raised
          /\ lead_has_enough_spikes = SequentialPacing.lead_has_enough_spikes
          /\ is_PR = SequentialPacing.is_PR

----------------------------------------------------------------------------
(* Properties of the loader and the resampler *)

LoadDataReturned == op = "load_data" /\ pc = "done" /\ raised = None

LoadResampledReturned ==
    op = "load_resampled_data" /\ pc = "done" /\ raised = None

\* the waveform of the call, leads x samples whatever the layout asked for
LeadFirst ==
    IF args.data_format = "channel_last" THEN transpose(data) ELSE data

\* the correction of the tranche and of the units, as the claim gives them
\* 4.88 = 122 / 25
CorrectionNum == IF record.tranche = "F" THEN 122 ELSE 1

CorrectionDen == IF record.tranche = "F" THEN 25 ELSE 1

UnitScale == IF args.units \in {"uV", "μV"} THEN 1000 ELSE 1

\* v = (digital - baseline) / adc_gain * correction * unit scale for sample
\* i of lead l; the quotient exists when the gain is not 0
IsPhysical(v, l, i) ==
    /\ v.den = 0 <=> record.adc_gain[l] = 0
    /\ v.num * record.adc_gain[l] * CorrectionDen
          = (record.digital[l][i] - record.baseline[l])
                * CorrectionNum * UnitScale * v.den

\* the waveform has the samples of the record, one for one, calibrated
Unresampled ==
    /\ Len(LeadFirst) = Len(record.digital)
    /\ \A l \in 1..Len(record.digital) :
          /\ Len(LeadFirst[l]) = Len(record.digital[l])
          /\ \A i \in 1..Len(record.digital[l]) :
                IsPhysical(LeadFirst[l][i], l, i)

GainMissing == \E l \in 1..Len(record.adc_gain) : record.adc_gain[l] = 0

\* C15: a record with an ADC gain of 0 in some lead gives an error and no
\* waveform, in load_data, load_resampled_data and run_12ECG_classifier; no
\* waveform with the result of a division by zero is produced.
C15_CalibrationError ==
    (op \in {"load_data", "load_resampled_data", "classify"}
        /\ pc # "call" /\ GainMissing)
    => (raised # None /\ data = << >>)

\* C16: when the target frequency is the frequency of the record, or none
\* is given, load_data, load_resampled_data and run_12ECG_classifier make no
\* resample_poly call and the waveform keeps its samples one for one.
C16_NoResampling ==
    /\ (LoadDataReturned
          /\ args.freq \in {<< >>, <<reader_freq(record.tranche)>>})
        => (resample_calls = 0 /\ Unresampled)
    /\ (LoadResampledReturned /\ reader_freq(record.tranche) = 500)
        => (resample_calls = 0 /\ (args.siglen = << >> => Unresampled))
    /\ (op = "classify" /\ pc \notin {"call", "calibrated"}
          /\ record.fs = model_fs)
        => (resample_calls = 0 /\ Unresampled)

\* load_data asked for the frequency the record already has
C16_Witness ==
    /\ LoadDataReturned
    /\ args.freq = <<reader_freq(record.tranche)>>
    /\ Len(record.digital[1]) > 1
    /\ resample_calls = 0
    /\ Unresampled

\* number of samples per lead of the waveform of the call
ReturnedLen == IF LeadFirst = << >> THEN 0 ELSE Len(LeadFirst[1])

\* C17: when a siglen is requested, load_resampled_data never returns a
\* waveform with fewer than siglen samples per lead (it fails instead).
C17_InsufficientLength ==
    (LoadResampledReturned /\ args.siglen # << >>)
    => ReturnedLen >= args.siglen[1]

\* the record resampled to 500 Hz, not cut to any length
ResampledSignal == load_resampled_data(record, "channel_first", << >>, {}).data

\* w is siglen successive samples of every lead of s, from the same start
IsWindowOf(w, s, siglen) ==
    /\ Len(w) = Len(s)
    /\ \E start \in 0..(Len(s[1]) - siglen) :
          \A l \in 1..Len(s) :
              /\ Len(w[l]) = siglen
              /\ \A i \in 1..siglen : w[l][i] = s[l][start + i]

\* C18: when a siglen is requested and the resampled signal has more than
\* siglen samples, the waveform returned is siglen successive samples of
\* every lead of the resampled signal, and it is the waveform the first call
\* with this siglen returned.
C18_ContiguousWindow ==
    (LoadResampledReturned /\ args.siglen # << >>
        /\ Len(ResampledSignal[1]) > args.siglen[1])
    => /\ IsWindowOf(LeadFirst, ResampledSignal, args.siglen[1])
       /\ \A p \in first_loaded : p[1] = args.siglen => p[2] = LeadFirst

\* a later call with the same siglen on a record of tranche C, answered
\* without resampling again
C18_Witness ==
    /\ LoadResampledReturned
    /\ args.siglen # << >>
    /\ Len(ResampledSignal[1]) > args.siglen[1]
    /\ record.tranche = "C"
    /\ loads > 1
    /\ resample_calls = 0
    /\ IsWindowOf(LeadFirst, ResampledSignal, args.siglen[1])

\* a step that is a call of load_resampled_data
ResampledLoaded == op = "load_resampled_data" /\ loads' = loads + 1

\* the files written by the step
NewFiles == files' \ files

\* the step leaves the files that exist as they are, writes at most one
\* file, for its own siglen, only when there was none for it, and never
\* when a siglen is given and the resampled signal is shorter
FilesKept ==
    /\ files \subseteq files'
    /\ \A f \in NewFiles, g \in files' : g[1] = f[1] => g = f
    /\ \A f \in NewFiles :
          /\ f[1] = args'.siglen
          /\ f[1] # << >> => Len(ResampledSignal[1]) >= f[1][1]

\* the array a first call returned, in the layout that call asked for
AsReturned(p) == IF p[3] = "channel_last" THEN transpose(p[2]) ELSE p[2]

\* C30 as stated: a file of load_resampled_data is written only with the
\* value the call returns, an existing file is never overwritten, and every
\* later call with the same siglen returns data equal to what the first call
\* with it returned.
C30_Original ==
    /\ [][ResampledLoaded =>
             (FilesKept /\ \A f \in NewFiles : f[2] = data')]_vars
    /\ [](LoadResampledReturned =>
             \A p \in first_loaded : p[1] = args.siglen => AsReturned(p) = data)

\* C30, amended: a file is written only with the array the call computed,
\* which is the value returned taken as leads x samples; an existing file is
\* never overwritten; and every later call with the same siglen returns the
\* array of the first call with it, each call in the layout it asked for.
C30_Amended ==
    /\ [][ResampledLoaded =>
             (FilesKept /\ \A f \in NewFiles : f[2] = LeadFirst')]_vars
    /\ [](LoadResampledReturned =>
             \A p \in first_loaded : p[1] = args.siglen => p[2] = LeadFirst)

\* a second call with the siglen of the first one, in the other layout,
\* answered from the file of the first call
C30_Witness ==
    /\ LoadResampledReturned
    /\ loads = 2
    /\ resample_calls = 0
    /\ record.tranche = "C"
    /\ \E p \in first_loaded :
          /\ p[1] = args.siglen
          /\ p[3] # args.data_format
          /\ p[2] = LeadFirst
          /\ <<p[1], p[2]>> \in files

----------------------------------------------------------------------------
(* Properties of run_12ECG_classifier *)

ClassifierDone == op = "classify" /\ pc = "done"

\* the rule-based flag of class c, from the verdicts of the detectors
RuleFlag(c) ==
    IF (c = "Brady" /\ conclusion = "B") \/ (c = "LAD" /\ axis = "LAD")
        \/ (c = "RAD" /\ axis = "RAD") \/ (c = "PR" /\ is_PR)
        \/ (c = "LQRSV" /\ is_LQRSV)
    THEN 1 ELSE 0

\* the label the networks give to class c
LearnedLabel(c) ==
    IF \E i \in 1..Len(dl_classes) : dl_classes[i] = c
    THEN dl_conclusions[CHOOSE i \in 1..Len(dl_classes) : dl_classes[i] = c]
    ELSE 0

\* C19: run_12ECG_classifier ends with a label vector that is, class by
\* class, the maximum of the rule-based flag (Brady, LAD, RAD, PR, LQRSV from
\* the verdicts, 0 elsewhere) and the label of the networks.
C19_MergedLabels ==
    ClassifierDone =>
        /\ raised = None
        /\ Len(final_conclusions) = Len(full_classes)
        /\ \A c \in 1..Len(full_classes) :
              final_conclusions[c]
                 = Greatest(RuleFlag(full_classes[c]), LearnedLabel(full_classes[c]))

\* the largest score of the networks
MaxScore == SeqMax(dl_scores)

\* NSR is one of the classes of the networks
HasNSR == \E i \in 1..Len(dl_classes) : dl_classes[i] = "NSR"

\* C27 as stated: run_12ECG_classifier returns a label vector for every
\* score vector of the networks and raises nothing; if the largest score is
\* below the NSR threshold and NSR is a class, the NSR label is 1;
\* otherwise, if no score reaches the binary threshold, every class within
\* the look-again tolerance of the largest score and at least the NSR
\* threshold is 1; so the class of the largest score is 1 whenever that
\* score is at least the NSR threshold.
C27_PostProcessing ==
    ClassifierDone =>
        /\ raised = None
        /\ Len(final_conclusions) = Len(full_classes)
        /\ (MaxScore < bin_pred_nsr_thr /\ HasNSR) => LearnedLabel("NSR") = 1
        /\ (~(MaxScore < bin_pred_nsr_thr /\ HasNSR)
              /\ \A i \in 1..Len(dl_scores) : dl_scores[i] < bin_pred_thr)
            => \A i \in 1..Len(dl_scores) :
                  (dl_scores[i] + bin_pred_look_again_tol >= MaxScore
                      /\ dl_scores[i] >= bin_pred_nsr_thr)
                  => dl_conclusions[i] = 1
        /\ MaxScore >= bin_pred_nsr_thr =>
              \A i \in 1..Len(dl_scores) :
                  dl_scores[i] = MaxScore => dl_conclusions[i] = 1

\* the special detectors have run
Detected == op = "classify" /\ pc \in {"detected", "prepared", "inferred", "done"}

RuleClasses == {"Brady", "LAD", "RAD", "PR", "LQRSV"}

\* the flags of the call with the tachycardia flag set to b
WithTachy(b) == [partial_conclusion EXCEPT !.is_tachy = b]

\* the final labels and scores for a rule-based vector v
FinalLabels(v) ==
    merge(v, extend_predictions(dl_conclusions, dl_classes, full_classes))

FinalScores(v) ==
    merge([c \in 1..Len(v) |-> 10 * v[c]],
          extend_predictions(dl_scores, dl_classes, full_classes))

\* C28: the tachycardia verdict goes into no slot of the rule-based vector:
\* the vector is the same for is_tachy true and false and is 1 only in
\* slots of Brady, LAD, RAD, PR and LQRSV, each from its own verdict, and
\* the labels and scores returned are those of either value of is_tachy.
C28_TachyNotWritten ==
    Detected =>
        /\ partial_conclusion.is_tachy <=> conclusion = "T"
        /\ tmp = rule_vector(WithTachy(TRUE))
        /\ tmp = rule_vector(WithTachy(FALSE))
        /\ \A c \in 1..Len(full_classes) :
              /\ tmp[c] = RuleFlag(full_classes[c])
              /\ tmp[c] = 1 => full_classes[c] \in RuleClasses
        /\ (pc = "done" /\ raised = None) =>
              /\ final_conclusions = FinalLabels(rule_vector(WithTachy(TRUE)))
              /\ final_conclusions = FinalLabels(rule_vector(WithTachy(FALSE)))
              /\ final_scores = FinalScores(rule_vector(WithTachy(TRUE)))
              /\ final_scores = FinalScores(rule_vector(WithTachy(FALSE)))

\* a call that returns with a tachycardia verdict and the STach label 0
C28_Witness ==
    /\ ClassifierDone
    /\ raised = None
    /\ conclusion = "T"
    /\ partial_conclusion.is_tachy
    /\ \E c \in 1..Len(full_classes) :
          full_classes[c] = "STach" /\ tmp[c] = 0 /\ final_conclusions[c] = 0

\* the stages of run_12ECG_classifier, each with the stage that follows it;
\* the exception of the post-processing ends the call
StageOrder ==
    { <<"call", "calibrated">>, <<"calibrated", "resampled">>,
      <<"resampled", "detected">>, <<"detected", "prepared">>,
      <<"prepared", "inferred">>, <<"prepared", "done">>,
      <<"inferred", "done">> }

\* a is the record calibrated and brought to ModelCfg.fs: every sample is a
\* calibrated sample of its lead, and the lead has the samples of the
\* record's duration at ModelCfg.fs
CalibratedAtModelFs(a) ==
    /\ Len(a) = Len(record.digital)
    /\ \A l \in 1..Len(a) :
          LET n == Len(record.digital[l])
          IN  /\ Len(a[l]) * record.fs >= n * model_fs
              /\ (Len(a[l]) - 1) * record.fs < n * model_fs
              /\ record.fs = model_fs =>
                    \A i \in 1..n : IsPhysical(a[l][i], l, i)
              /\ \A k \in 1..Len(a[l]) :
                    \E i \in 1..n : IsPhysical(a[l][k], l, i)

\* C24: the stages of run_12ECG_classifier run forward only: raw_data is
\* written by the calibration and then by the resampling and by no later
\* stage, resample_poly is given the calibrated samples, the special
\* detectors are given raw_data, calibrated and at ModelCfg.fs, before the
\* input of the networks is made from it, and the final labels are written
\* only when the rule-based vector and the labels of the networks exist.
C24_StagesForward ==
    [][op = "classify" =>
          /\ pc' # pc => <<pc, pc'>> \in StageOrder
          /\ data' # data => pc \in {"call", "calibrated"}
          /\ resample_calls' # resample_calls =>
                pc = "calibrated" /\ Unresampled
          /\ pc' = "detected" =>
                /\ raw_sig' = data
                /\ fs' = model_fs
                /\ CalibratedAtModelFs(raw_sig')
                /\ dl_data = NoDlData
                /\ raw_sig' # dl_data'.val
          /\ dl_data' # dl_data => pc = "detected"
          /\ final_conclusions' # final_conclusions =>
                /\ pc = "inferred"
                /\ Len(tmp) = Len(full_classes)
                /\ Len(dl_conclusions) = Len(dl_classes)]_vars

\* a record of 1000 Hz has gone through every stage: resampled once, given
\* to the detectors, then filtered and normalized for the networks, merged
C24_Witness ==
    /\ ClassifierDone
    /\ raised = None
    /\ record.fs # model_fs
    /\ resample_calls = 1
    /\ raw_sig = data
    /\ CalibratedAtModelFs(raw_sig)
    /\ dl_data.bandpassed
    /\ dl_data.normalized
    /\ Len(final_conclusions) = Len(full_classes)

----------------------------------------------------------------------------
(* Properties of the train-test split *)

Members(x) == {x[i] : i \in 1..Len(x)}

\* the records of the tranche with a class of the tranche and at least
\* input_len samples
ValidRecords ==
    {i \in 1..Len(all_records) :
        /\ all_records[i].labels \cap tranche_classes # {}
        /\ all_records[i].samples >= input_len}

\* every class of the tranche is a label of some record of x
CoversClasses(x) ==
    \A c \in tranche_classes : \E i \in Members(x) : c \in all_records[i].labels

\* C25 as stated: the loop of _train_test_split is left, for the tranche,
\* only with train and test disjoint, together the valid records of the
\* tranche, train the first floor(n * train_ratio) records of the shuffled
\* list, and every class of the tranche in both; and the validity check
\* returns true iff both sets cover all the classes.
C25_ValidSplit ==
    /\ (op = "split" /\ pc = "done") =>
          /\ raised = None
          /\ Members(train) \cap Members(test) = {}
          /\ Members(train) \cup Members(test) = ValidRecords
          /\ train = SubSeq(tranche_records, 1,
                            (Len(tranche_records) * train_ratio) \div 100)
          /\ CoversClasses(train)
          /\ CoversClasses(test)
    /\ (op = "check" /\ pc = "done") =>
          ((raised = None /\ is_valid)
              <=> (CoversClasses(train) /\ CoversClasses(test)))

----------------------------------------------------------------------------

Init ==
    InitRate \/ InitAxis \/ InitPacing \/ InitLQRSV \/ InitPipeline \/ InitPool
        \/ InitSplit

Next ==
    NextRate \/ NextAxis \/ NextPacing \/ NextLQRSV \/ NextPipeline \/ NextPool
        \/ NextSplit

Spec == Init /\ [][Next]_vars

=============================================================================
